---- MODULE Spec2Model ----
(***************************************************************************)
(* Model of the frametide cache, session tracker and component extractor.  *)
(*                                                                         *)
(* Time is counted in milliseconds, as Date.now() does.  Cache keys are    *)
(* the ':'-separated strings of CacheService.keys, written as the tuple of *)
(* their segments: "component:f1:c1" is <<"component", "f1", "c1">>.       *)
(* An optional value is a sequence of length 0 (absent) or 1 (present).    *)
(***************************************************************************)
EXTENDS Integers, Sequences, FiniteSets, TLC

VARIABLES now, ticks, cache, recent, live, sessions, upstream, figmaVariablesMetadata, walk,
          rateLimiter, figmaClient, inflight, ret

vars == <<now, ticks, cache, recent, live, sessions, upstream, figmaVariablesMetadata, walk,
          rateLimiter, figmaClient, inflight, ret>>

(***************************************************************************)
(* Bounds of the model.                                                    *)
(***************************************************************************)
MaxTicks == 2
MaxSize == 2
MaxDepth == 6

(***************************************************************************)
(* Program constants.                                                      *)
(***************************************************************************)
DEFAULT_TTL == 3600000
DEFAULT_MAX == 1000
TTL_component == 3600000
TTL_componentList == 1800000
TTL_designTokens == 86400000
TTL_componentSpec == 3600000
SESSION_TTL == 24 * 60 * 60 * 1000

None == <<>>
Some(x) == <<x>>

(***************************************************************************)
(* Small helpers on sequences.                                             *)
(***************************************************************************)
RECURSIVE Without(_, _)
Without(s, k) ==
  IF s = <<>> THEN <<>>
  ELSE IF Head(s) = k THEN Without(Tail(s), k)
  ELSE <<Head(s)>> \o Without(Tail(s), k)

Range(s) == {s[i] : i \in 1..Len(s)}

Restrict(f, S) == [x \in S |-> f[x]]

Forget(f, k) == Restrict(f, DOMAIN f \ {k})

Put(f, k, v) == [x \in DOMAIN f \cup {k} |-> IF x = k THEN v ELSE f[x]]

(***************************************************************************)
(* The lru-cache store as CacheService.constructor configures it:          *)
(* max entries, ttl = defaultTtl for every entry (set passes no ttl of its *)
(* own), updateAgeOnGet, allowStale = false.  order runs from the least    *)
(* recently used key to the most recently used one; items[k].start is the  *)
(* time the age of k was last reset.                                       *)
(***************************************************************************)
EmptyCache == [order |-> <<>>, items |-> <<>>]

LruHas(c, k) == k \in DOMAIN c.items

LruIsStale(c, k, t) == t - c.items[k].start > DEFAULT_TTL

LruDelete(c, k) ==
  IF LruHas(c, k)
  THEN [order |-> Without(c.order, k),
        items |-> Restrict(c.items, DOMAIN c.items \ {k})]
  ELSE c

\* memoryCache.get(key): a stale entry is dropped and undefined returned;
\* a hit becomes the most recently used key and its age restarts.
LruGet(c, k, t) ==
  IF ~LruHas(c, k) THEN [cache |-> c, value |-> None]
  ELSE IF LruIsStale(c, k, t) THEN [cache |-> LruDelete(c, k), value |-> None]
  ELSE [cache |-> [order |-> Append(Without(c.order, k), k),
                   items |-> [c.items EXCEPT ![k].start = t]],
        value |-> Some(c.items[k].value)]

\* memoryCache.set(key, entry): an existing key is overwritten in place, a
\* new key at capacity evicts the head of the order first.
LruSet(c, max, k, v, t) ==
  LET item == [value |-> v, start |-> t] IN
  IF LruHas(c, k)
  THEN [order |-> Append(Without(c.order, k), k),
        items |-> [c.items EXCEPT ![k] = item]]
  ELSE LET base == IF Len(c.order) >= max THEN LruDelete(c, Head(c.order)) ELSE c
       IN [order |-> Append(base.order, k),
           items |-> [x \in DOMAIN base.items \cup {k} |->
                        IF x = k THEN item ELSE base.items[x]]]

\* memoryCache.keys(): the keys that are not stale.
LruKeys(c, t) == {k \in DOMAIN c.items : ~LruIsStale(c, k, t)}

(***************************************************************************)
(* CacheService.                                                           *)
(***************************************************************************)
\* ttl || this.defaultTtl, for an optional number
TtlOrDefault(ttl) == IF ttl = None \/ ttl[1] = 0 THEN DEFAULT_TTL ELSE ttl[1]

\* the expiry test with the cache-wide TTL in place of the entry's own
isExpired_defaultTtl(entry, t) == t - entry.timestamp > DEFAULT_TTL

isExpired(entry, t) == t - entry.timestamp > entry.ttl

CacheGet(c, k, t) ==
  LET g == LruGet(c, k, t) IN
  IF g.value = None THEN [cache |-> g.cache, value |-> None]
  ELSE IF isExpired(g.value[1], t)
       THEN [cache |-> LruDelete(g.cache, k), value |-> None]
       ELSE [cache |-> g.cache, value |-> Some(g.value[1].data)]

\* a set that leaves an entry already stored under the key as it is
CacheSet_keepExisting(c, max, k, data, ttl, t) ==
  IF LruHas(c, k) THEN c
  ELSE LruSet(c, max, k, [data |-> data, timestamp |-> t, ttl |-> TtlOrDefault(ttl)], t)

CacheSet(c, max, k, data, ttl, t) ==
  LruSet(c, max, k, [data |-> data, timestamp |-> t, ttl |-> TtlOrDefault(ttl)], t)

\* a has that looks the entry up without marking it as used
CacheHas_peek(c, k, t) ==
  IF ~LruHas(c, k) THEN [cache |-> c, value |-> FALSE]
  ELSE IF LruIsStale(c, k, t) \/ isExpired(c.items[k].value, t)
       THEN [cache |-> LruDelete(c, k), value |-> FALSE]
       ELSE [cache |-> c, value |-> TRUE]

CacheHas(c, k, t) ==
  LET g == LruGet(c, k, t) IN
  IF g.value = None THEN [cache |-> g.cache, value |-> FALSE]
  ELSE IF isExpired(g.value[1], t)
       THEN [cache |-> LruDelete(g.cache, k), value |-> FALSE]
       ELSE [cache |-> g.cache, value |-> TRUE]

CacheDelete(c, k) == LruDelete(c, k)

CacheClear(c) == EmptyCache

\* RegExp over key segments: a pattern is a sequence of atoms, each a literal
\* segment, ".*" (any run of segments), a leading "^" or a trailing "$".
RECURSIVE MatchHere(_, _)
MatchHere(atoms, s) ==
  IF atoms = <<>> THEN TRUE
  ELSE IF Head(atoms) = ".*"
       THEN \E i \in 0..Len(s) : MatchHere(Tail(atoms), SubSeq(s, i + 1, Len(s)))
  ELSE IF Head(atoms) = "$" THEN s = <<>> /\ Tail(atoms) = <<>>
  ELSE s # <<>> /\ Head(s) = Head(atoms) /\ MatchHere(Tail(atoms), Tail(s))

RegexTest(p, key) ==
  IF p # <<>> /\ Head(p) = "^" THEN MatchHere(Tail(p), key)
  ELSE \E i \in 0..Len(key) : MatchHere(p, SubSeq(key, i + 1, Len(key)))

RECURSIVE DeleteAll(_, _)
DeleteAll(c, keys) ==
  IF keys = {} THEN c
  ELSE LET k == CHOOSE x \in keys : TRUE
       IN DeleteAll(LruDelete(c, k), keys \ {k})

\* an invalidation that stops after the first matching key
CacheInvalidatePattern_firstOnly(c, p, t) ==
  LET hit == {k \in LruKeys(c, t) : RegexTest(p, k)}
  IN IF hit = {} THEN c ELSE LruDelete(c, CHOOSE k \in hit : TRUE)

CacheInvalidatePattern(c, p, t) ==
  DeleteAll(c, {k \in LruKeys(c, t) : RegexTest(p, k)})

(***************************************************************************)
(* Inputs of the cache operations.                                         *)
(***************************************************************************)
CacheKeys == {<<"component", "f1", "c1">>, <<"component", "f1", "c2">>, <<"tokens", "f1">>}
CacheValues == {[kind |-> "raw", v |-> "data1"], [kind |-> "raw", v |-> "tokens"]}
\* the values a caller stores under a key
ValuesFor(k) == IF k[1] = "tokens" THEN CacheValues ELSE {[kind |-> "raw", v |-> "data1"]}
TtlArgs == {None, Some(0 - 1), Some(0), Some(1), Some(TTL_designTokens)}
Patterns == {<<"component", "f1", ".*">>, <<"tokens">>, <<"^", "f1">>, <<"c1", "$">>, <<"f1">>}
CacheDeltas == {1, DEFAULT_TTL}

(***************************************************************************)
(* Initial state: a fresh process.                                         *)
(***************************************************************************)
Init ==
  /\ now = 0
  /\ ticks = 0
  /\ cache = EmptyCache
  /\ recent = <<>>
  /\ live = <<>>
  /\ sessions = <<>>
  /\ upstream = [f \in {"f1", "f2"} |-> "v1"]
  /\ figmaVariablesMetadata = None
  /\ walk = [status |-> "idle"]
  /\ rateLimiter = [clients |-> <<>>, grants |-> <<>>]
  /\ figmaClient = [requestCount |-> 0, lastResetTime |-> 0, requests |-> <<>>,
                    fetches |-> <<>>]
  /\ inflight = <<>>
  /\ ret = [op |-> "init"]

(***************************************************************************)
(* History kept for the properties.  recent is the recency of use as the   *)
(* callers of CacheService see it: a key moves to the end when it is       *)
(* written or read with a result, and leaves when it is gone.  live[k] is  *)
(* the entry last stored under k, for the keys that were not deleted,      *)
(* cleared, invalidated by pattern or evicted since, and that no read has  *)
(* reported gone (an entry that expired stays expired).                    *)
(***************************************************************************)
Touch(r, k) == Append(Without(r, k), k)
Present(r, c) == SelectSeq(r, LAMBDA k : LruHas(c, k))
LiveEntry(l, k) == IF k \in DOMAIN l THEN Some(l[k]) ELSE None

(***************************************************************************)
(* Actions of the cache on its own: new CacheService({maxSize: MaxSize}).  *)
(***************************************************************************)
Get(k) ==
  \E g \in {CacheGet(cache, k, now)} :
  /\ cache' = g.cache
  /\ recent' = Present(IF g.value = None THEN recent ELSE Touch(recent, k), g.cache)
  /\ live' = IF g.value = None THEN Forget(live, k) ELSE live
  /\ ret' = [op |-> "get", key |-> k, val |-> g.value, stored |-> LiveEntry(live, k),
             afterSet |-> IF ret.op = "set" /\ ret.key = k
                          THEN Some([data |-> ret.data, ttl |-> ret.ttl]) ELSE None]
  /\ UNCHANGED <<now, ticks, sessions, upstream, figmaVariablesMetadata, walk, rateLimiter, figmaClient, inflight>>

Set(k, v, ttl) ==
  \E c2 \in {CacheSet(cache, MaxSize, k, v, ttl, now)} :
  /\ cache' = c2
  /\ recent' = Present(Touch(recent, k), c2)
  /\ live' = LET gone == DOMAIN cache.items \ DOMAIN c2.items
             IN [x \in (DOMAIN live \ gone) \cup {k} |->
                   IF x = k THEN c2.items[k].value ELSE live[x]]
  /\ ret' = [op |-> "set", key |-> k, data |-> v, ttl |-> ttl,
             evicted |-> DOMAIN cache.items \ DOMAIN c2.items,
             evictedAt |-> [e \in DOMAIN cache.items \ DOMAIN c2.items |->
                              cache.items[e].value.timestamp]]
  /\ UNCHANGED <<now, ticks, sessions, upstream, figmaVariablesMetadata, walk, rateLimiter, figmaClient, inflight>>

Has(k) ==
  \E g \in {CacheHas(cache, k, now)} :
  /\ cache' = g.cache
  /\ recent' = Present(IF g.value THEN Touch(recent, k) ELSE recent, g.cache)
  /\ live' = IF g.value THEN live ELSE Forget(live, k)
  /\ ret' = [op |-> "has", key |-> k, val |-> g.value]
  /\ UNCHANGED <<now, ticks, sessions, upstream, figmaVariablesMetadata, walk, rateLimiter, figmaClient, inflight>>

Delete(k) ==
  /\ cache' = CacheDelete(cache, k)
  /\ recent' = Present(recent, cache')
  /\ live' = Forget(live, k)
  /\ ret' = [op |-> "delete", key |-> k]
  /\ UNCHANGED <<now, ticks, sessions, upstream, figmaVariablesMetadata, walk, rateLimiter, figmaClient, inflight>>

Clear ==
  /\ cache' = CacheClear(cache)
  /\ recent' = <<>>
  /\ live' = <<>>
  /\ ret' = [op |-> "clear"]
  /\ UNCHANGED <<now, ticks, sessions, upstream, figmaVariablesMetadata, walk, rateLimiter, figmaClient, inflight>>

InvalidatePattern(p) ==
  /\ cache' = CacheInvalidatePattern(cache, p, now)
  /\ recent' = Present(recent, cache')
  /\ live' = Restrict(live, {k \in DOMAIN live : ~RegexTest(p, k)})
  /\ ret' = [op |-> "invalidatePattern", pattern |-> p,
             removed |-> DOMAIN cache.items \ DOMAIN cache'.items]
  /\ UNCHANGED <<now, ticks, sessions, upstream, figmaVariablesMetadata, walk, rateLimiter, figmaClient, inflight>>

TickCache ==
  /\ ticks < MaxTicks
  /\ \E d \in CacheDeltas : now' = now + d
  /\ ticks' = ticks + 1
  /\ ret' = [op |-> "tick"]
  /\ UNCHANGED <<cache, recent, live, sessions, upstream, figmaVariablesMetadata, walk, rateLimiter, figmaClient, inflight>>

NextCache ==
  \/ \E k \in CacheKeys : Get(k)
  \/ \E k \in CacheKeys : \E v \in ValuesFor(k), ttl \in TtlArgs : Set(k, v, ttl)
  \/ \E k \in CacheKeys : Has(k)
  \/ \E k \in CacheKeys : Delete(k)
  \/ Clear
  \/ \E p \in Patterns : InvalidatePattern(p)
  \/ TickCache

SpecCache == Init /\ [][NextCache]_vars

(***************************************************************************)
(* Properties of the cache.                                                *)
(***************************************************************************)
\* C1: get never returns a value for an entry that is expired or gone: a
\* value returned by get(k) is the data of the entry last stored under k,
\* that entry was not deleted, cleared, invalidated or evicted, and it is not
\* expired (now - timestamp > ttl); and after a get that returned null the
\* key is no longer in the store.
C1_GetNeverExpired ==
  ret.op = "get" =>
    /\ ret.val # None =>
         /\ ret.stored # None
         /\ ~(now - ret.stored[1].timestamp > ret.stored[1].ttl)
         /\ ret.val = Some(ret.stored[1].data)
    /\ ret.val = None => ~LruHas(cache, ret.key)

\* an expired entry that was still held (it was not stale for the store) was
\* found by get, which answered null
C1_Witness ==
  /\ ret.op = "get"
  /\ ret.val = None
  /\ ret.stored # None
  /\ ret.stored[1].ttl = 1
  /\ now - ret.stored[1].timestamp > 1
  /\ now - ret.stored[1].timestamp <= DEFAULT_TTL

\* C2 as stated: for every ttl argument, any number or omitted, set(k, v, ttl)
\* followed at once by get(k) returns v.
C2_SetThenGetAnyTtl ==
  (ret.op = "get" /\ ret.afterSet # None) => ret.val = Some(ret.afterSet[1].data)

\* C2 amended: for every ttl argument that is omitted or not negative,
\* set(k, v, ttl) followed at once by get(k) returns v.
C2_SetThenGet ==
  (/\ ret.op = "get"
   /\ ret.afterSet # None
   /\ (ret.afterSet[1].ttl = None \/ ret.afterSet[1].ttl[1] >= 0))
  => ret.val = Some(ret.afterSet[1].data)

C2_Witness ==
  /\ ret.op = "get"
  /\ ret.afterSet # None
  /\ ret.afterSet[1].ttl = Some(1)
  /\ ret.afterSet[1].data.v = "tokens"
  /\ ret.val = Some(ret.afterSet[1].data)

\* C3: an entry stored with set(k, v, T) is returned by get(k) at every time
\* t with t - setTime <= T, as long as it was not overwritten, deleted,
\* cleared, invalidated or evicted, also when T exceeds the default TTL.
C3_TtlOverrideHonoured ==
  (/\ ret.op = "get"
   /\ ret.stored # None
   /\ now - ret.stored[1].timestamp <= ret.stored[1].ttl)
  => ret.val = Some(ret.stored[1].data)

\* C4: invalidatePattern(p) removes the keys that match p and no other: get
\* answers null for every key that matches, and a key that does not match
\* keeps its entry (data, timestamp, ttl) as it was.
C4_InvalidateExactly ==
  [][ret'.op = "invalidatePattern" =>
       \A k \in CacheKeys :
         IF RegexTest(ret'.pattern, k)
         THEN CacheGet(cache', k, now').value = None
         ELSE /\ LruHas(cache', k) <=> LruHas(cache, k)
              /\ LruHas(cache, k) => cache'.items[k] = cache.items[k]]_vars

C4_Witness ==
  /\ ret.op = "invalidatePattern"
  /\ ret.removed # {}
  /\ \E k \in DOMAIN cache.items : ~RegexTest(ret.pattern, k)

\* C5: the cache never holds more than maxSize entries, and a set of a new
\* key at capacity evicts the key used least recently (a read or a write of
\* a key counts as a use) and leaves every other entry as it was.
C5_CapacityLru ==
  [][/\ Cardinality(DOMAIN cache'.items) <= MaxSize
     /\ (/\ ret'.op = "set"
         /\ ~LruHas(cache, ret'.key)
         /\ Cardinality(DOMAIN cache.items) = MaxSize)
        => /\ DOMAIN cache'.items =
                (DOMAIN cache.items \ {Head(recent)}) \cup {ret'.key}
           /\ \A x \in DOMAIN cache.items \ {Head(recent)} :
                cache'.items[x] = cache.items[x]]_vars

\* a set at capacity evicted a key that was written after the key it kept
C5_Witness ==
  /\ ret.op = "set"
  /\ ret.evicted # {}
  /\ Cardinality(DOMAIN cache.items) = MaxSize
  /\ \E x \in DOMAIN cache.items \ {ret.key} : \E e \in ret.evicted :
        live[x].timestamp < ret.evictedAt[e]

(***************************************************************************)
(* SessionManager.  A timestamp string is the ISO form of a millisecond    *)
(* count; new Date(s).getTime() reads the count back.                      *)
(***************************************************************************)
toISOString(t) == [iso |-> t]
getTime(s) == s.iso

\* a set that carries the statuses of the client's previous session over
setWorkingFile_merge(ss, clientId, parsedUrl, fileName, t) ==
  LET workingFile ==
        [fileId |-> parsedUrl.fileId,
         fileName |-> IF fileName = None THEN parsedUrl.fileName ELSE fileName[1],
         url |-> parsedUrl.url,
         setAt |-> toISOString(t),
         lastAccessed |-> toISOString(t),
         implementationStatus |-> IF clientId \in DOMAIN ss
                                  THEN ss[clientId].implementationStatus ELSE <<>>]
  IN [sessions |-> Put(ss, clientId, workingFile), value |-> workingFile]

setWorkingFile(ss, clientId, parsedUrl, fileName, t) ==
  LET workingFile ==
        [fileId |-> parsedUrl.fileId,
         fileName |-> IF fileName = None THEN parsedUrl.fileName ELSE fileName[1],
         url |-> parsedUrl.url,
         setAt |-> toISOString(t),
         lastAccessed |-> toISOString(t),
         implementationStatus |-> <<>>]
  IN [sessions |-> Put(ss, clientId, workingFile), value |-> workingFile]

\* a reading that measures the session's age from its last access
getWorkingFile_sliding(ss, clientId, t) ==
  IF clientId \notin DOMAIN ss THEN [sessions |-> ss, value |-> None]
  ELSE IF t - getTime(ss[clientId].lastAccessed) > SESSION_TTL
       THEN [sessions |-> Forget(ss, clientId), value |-> None]
       ELSE LET s2 == [ss EXCEPT ![clientId].lastAccessed = toISOString(t)]
            IN [sessions |-> s2, value |-> Some(s2[clientId])]

getWorkingFile(ss, clientId, t) ==
  IF clientId \notin DOMAIN ss THEN [sessions |-> ss, value |-> None]
  ELSE IF t - getTime(ss[clientId].setAt) > SESSION_TTL
       THEN [sessions |-> Forget(ss, clientId), value |-> None]
       ELSE LET s2 == [ss EXCEPT ![clientId].lastAccessed = toISOString(t)]
            IN [sessions |-> s2, value |-> Some(s2[clientId])]

statusUpdate(existing, componentId, componentName, status, options, t) ==
  [componentId |-> componentId,
   componentName |-> componentName,
   status |-> status,
   lastModified |-> toISOString(t),
   notes |-> options.notes,
   framework |-> options.framework,
   implementedAt |-> IF status = "implemented" THEN Some(toISOString(t))
                     ELSE IF existing = None THEN None
                     ELSE existing[1].implementedAt]

\* an update that takes the session from the map without the expiry check
updateComponentStatus_noExpiry(ss, clientId, componentId, componentName, status, options, t) ==
  IF clientId \notin DOMAIN ss THEN [sessions |-> ss, value |-> FALSE]
  ELSE LET m == ss[clientId].implementationStatus
           existing == IF componentId \in DOMAIN m THEN Some(m[componentId]) ELSE None
           upd == statusUpdate(existing, componentId, componentName, status, options, t)
       IN [sessions |-> [ss EXCEPT ![clientId].implementationStatus = Put(m, componentId, upd),
                                   ![clientId].lastAccessed = toISOString(t)],
           value |-> TRUE]

updateComponentStatus(ss, clientId, componentId, componentName, status, options, t) ==
  LET g == getWorkingFile(ss, clientId, t) IN
  IF g.value = None THEN [sessions |-> g.sessions, value |-> FALSE]
  ELSE LET m == g.value[1].implementationStatus
           existing == IF componentId \in DOMAIN m THEN Some(m[componentId]) ELSE None
           upd == statusUpdate(existing, componentId, componentName, status, options, t)
       IN [sessions |-> [g.sessions EXCEPT
                           ![clientId].implementationStatus = Put(m, componentId, upd),
                           ![clientId].lastAccessed = toISOString(t)],
           value |-> TRUE]

getComponentStatus(ss, clientId, componentId, t) ==
  LET g == getWorkingFile(ss, clientId, t) IN
  IF g.value = None THEN [sessions |-> g.sessions, value |-> None]
  ELSE LET m == g.value[1].implementationStatus
       IN [sessions |-> g.sessions,
           value |-> IF componentId \in DOMAIN m THEN Some(m[componentId]) ELSE None]

\* a bucket choice that leaves untracked candidates out of every bucket
bucketOf_trackedOnly(session, component) ==
  IF session = None \/ component.id \notin DOMAIN session[1].implementationStatus
  THEN "none"
  ELSE LET st == session[1].implementationStatus[component.id].status
       IN IF st = "pending" THEN "pending"
          ELSE IF st = "in-progress" THEN "inProgress"
          ELSE IF st = "implemented" THEN "implemented"
          ELSE IF st = "needs-update" THEN "needsUpdate"
          ELSE "none"

\* the bucket a candidate goes to; "none" when its status is not one of the four
bucketOf(session, component) ==
  IF session = None \/ component.id \notin DOMAIN session[1].implementationStatus
  THEN "pending"
  ELSE LET st == session[1].implementationStatus[component.id].status
       IN IF st = "pending" THEN "pending"
          ELSE IF st = "in-progress" THEN "inProgress"
          ELSE IF st = "implemented" THEN "implemented"
          ELSE IF st = "needs-update" THEN "needsUpdate"
          ELSE "none"

getImplementationQueue(ss, clientId, components, t) ==
  LET g == getWorkingFile(ss, clientId, t)
      in(b) == SelectSeq(components, LAMBDA c : bucketOf(g.value, c) = b)
  IN [sessions |-> g.sessions,
      value |-> [pending |-> in("pending"),
                 inProgress |-> in("inProgress"),
                 implemented |-> in("implemented"),
                 needsUpdate |-> in("needsUpdate"),
                 total |-> Len(components)]]

\* Math.round(x / y * 100) for counts x <= y, y > 0
RoundPercent(x, y) == (200 * x + y) \div (2 * y)

getImplementationSummary(ss, clientId, t) ==
  LET g == getWorkingFile(ss, clientId, t) IN
  IF g.value = None
  THEN [sessions |-> g.sessions,
        value |-> [hasWorkingFile |-> FALSE, workingFile |-> None,
                   stats |-> [total |-> 0, pending |-> 0, inProgress |-> 0,
                              implemented |-> 0, needsUpdate |-> 0,
                              completionPercentage |-> 0]]]
  ELSE LET m == g.value[1].implementationStatus
           count(st) == Cardinality({c \in DOMAIN m : m[c].status = st})
           total == Cardinality(DOMAIN m)
       IN [sessions |-> g.sessions,
           value |-> [hasWorkingFile |-> TRUE, workingFile |-> g.value,
                      stats |-> [total |-> total,
                                 pending |-> count("pending"),
                                 inProgress |-> count("in-progress"),
                                 implemented |-> count("implemented"),
                                 needsUpdate |-> count("needs-update"),
                                 completionPercentage |->
                                   IF total > 0 THEN RoundPercent(count("implemented"), total)
                                   ELSE 0]]]

\* a clear that drops every client's session
clearWorkingFile_all(ss, clientId) ==
  [sessions |-> <<>>, value |-> clientId \in DOMAIN ss]

clearWorkingFile(ss, clientId) ==
  [sessions |-> Forget(ss, clientId), value |-> clientId \in DOMAIN ss]

cleanup(ss, t) ==
  Restrict(ss, {c \in DOMAIN ss : ~(t - getTime(ss[c].setAt) > SESSION_TTL)})

(***************************************************************************)
(* Inputs of the session operations.                                       *)
(***************************************************************************)
Clients == {"default-client"}
ParsedUrls ==
  {[fileId |-> "f1", fileName |-> "Design System", url |-> "https://figma.com/file/f1/Design-System"],
   [fileId |-> "f2", fileName |-> "Untitled", url |-> "https://figma.com/design/f2/Untitled"]}
FileNameArgs == {None, Some("Design System")}
ComponentIds == {"c1", "c2"}
Plain == [name |-> "Button", options |-> [notes |-> None, framework |-> None]]
Noted == [name |-> "Button v2", options |-> [notes |-> Some("done"), framework |-> Some("react")]]
\* the status updates a client sends: component, status, name and options
UpdateInputs ==
  {[id |-> "c1", status |-> "implemented", args |-> Plain],
   [id |-> "c1", status |-> "implemented", args |-> Noted],
   [id |-> "c1", status |-> "in-progress", args |-> Noted],
   [id |-> "c2", status |-> "pending", args |-> Plain],
   [id |-> "c2", status |-> "needs-update", args |-> Noted]}
CandidateLists ==
  {<<[id |-> "c1"], [id |-> "c2"], [id |-> "c3"]>>, <<[id |-> "c2"], [id |-> "c1"]>>, <<>>}
SessionDeltas == {1, SESSION_TTL}

(***************************************************************************)
(* Actions of the session tracker.                                         *)
(***************************************************************************)
SessionStep(r, before, record) ==
  /\ sessions' = r.sessions
  /\ ret' = [x \in DOMAIN record \cup {"val", "before"} |->
               IF x = "val" THEN r.value
               ELSE IF x = "before" THEN before
               ELSE record[x]]
  /\ UNCHANGED <<now, ticks, cache, recent, live, upstream, figmaVariablesMetadata, walk, rateLimiter, figmaClient, inflight>>

SetWorkingFile(c, u, fn) ==
  SessionStep(setWorkingFile(sessions, c, u, fn, now), LiveEntry(sessions, c),
              [op |-> "setWorkingFile", client |-> c, url |-> u, fileName |-> fn])

GetWorkingFile(c) ==
  SessionStep(getWorkingFile(sessions, c, now), LiveEntry(sessions, c),
              [op |-> "getWorkingFile", client |-> c])

UpdateComponentStatus(c, id, a, st) ==
  SessionStep(updateComponentStatus(sessions, c, id, a.name, st, a.options, now),
              LiveEntry(sessions, c),
              [op |-> "updateComponentStatus", client |-> c, componentId |-> id,
               componentName |-> a.name, status |-> st, options |-> a.options])

GetComponentStatus(c, id) ==
  SessionStep(getComponentStatus(sessions, c, id, now), LiveEntry(sessions, c),
              [op |-> "getComponentStatus", client |-> c, componentId |-> id])

GetImplementationQueue(c, components) ==
  SessionStep(getImplementationQueue(sessions, c, components, now), LiveEntry(sessions, c),
              [op |-> "getImplementationQueue", client |-> c, components |-> components])

GetImplementationSummary(c) ==
  SessionStep(getImplementationSummary(sessions, c, now), LiveEntry(sessions, c),
              [op |-> "getImplementationSummary", client |-> c])

ClearWorkingFile(c) ==
  SessionStep(clearWorkingFile(sessions, c), LiveEntry(sessions, c),
              [op |-> "clearWorkingFile", client |-> c])

Cleanup ==
  /\ sessions' = cleanup(sessions, now)
  /\ ret' = [op |-> "cleanup"]
  /\ UNCHANGED <<now, ticks, cache, recent, live, upstream, figmaVariablesMetadata, walk, rateLimiter, figmaClient, inflight>>

TickSession ==
  /\ ticks < MaxTicks
  /\ \E d \in SessionDeltas : now' = now + d
  /\ ticks' = ticks + 1
  /\ ret' = [op |-> "tick"]
  /\ UNCHANGED <<cache, recent, live, sessions, upstream, figmaVariablesMetadata, walk, rateLimiter, figmaClient, inflight>>

NextSession ==
  \/ \E c \in Clients, u \in ParsedUrls, fn \in FileNameArgs : SetWorkingFile(c, u, fn)
  \/ \E c \in Clients : GetWorkingFile(c)
  \/ \E c \in Clients, u \in UpdateInputs :
       UpdateComponentStatus(c, u.id, u.args, u.status)
  \/ \E c \in Clients, id \in ComponentIds : GetComponentStatus(c, id)
  \/ \E c \in Clients, l \in CandidateLists : GetImplementationQueue(c, l)
  \/ \E c \in Clients : GetImplementationSummary(c)
  \/ \E c \in Clients : ClearWorkingFile(c)
  \/ Cleanup
  \/ TickSession

SpecSession == Init /\ [][NextSession]_vars

(***************************************************************************)
(* Properties of the session tracker.                                      *)
(***************************************************************************)
SessionReads ==
  {"getWorkingFile", "updateComponentStatus", "getComponentStatus",
   "getImplementationQueue", "getImplementationSummary"}

\* C8: a session lives for 24 hours counted from setAt.  getWorkingFile
\* returns the session with lastAccessed refreshed when now - setAt <= 24h
\* and returns null and deletes it when now - setAt > 24h; only
\* setWorkingFile sets setAt, and no read, queue access or status update
\* leaves a session behind that is older than 24 hours.
C8_AbsoluteSessionTtl ==
  [][/\ (ret'.op = "getWorkingFile" /\ ret'.client \in DOMAIN sessions) =>
          LET c == ret'.client
              s == sessions[c]
          IN IF now - getTime(s.setAt) > SESSION_TTL
             THEN ret'.val = None /\ c \notin DOMAIN sessions'
             ELSE /\ ret'.val = Some([s EXCEPT !.lastAccessed = toISOString(now)])
                  /\ c \in DOMAIN sessions'
                  /\ sessions'[c] = ret'.val[1]
     /\ ret'.op # "setWorkingFile" =>
          \A c \in DOMAIN sessions' :
            c \in DOMAIN sessions /\ sessions'[c].setAt = sessions[c].setAt
     /\ (ret'.op \in SessionReads /\ ret'.client \in DOMAIN sessions') =>
          now' - getTime(sessions'[ret'.client].setAt) <= SESSION_TTL]_vars

\* a session that was read after its creation is found expired all the same
C8_Witness ==
  /\ ret.op = "getWorkingFile"
  /\ ret.val = None
  /\ ret.before # None
  /\ getTime(ret.before[1].lastAccessed) > getTime(ret.before[1].setAt)
  /\ ret.client \notin DOMAIN sessions

\* C9: setWorkingFile replaces the client's session: afterwards the session
\* has the new fileId and url, setAt = lastAccessed = now and no statuses.
C9_SetReplaces ==
  ret.op = "setWorkingFile" =>
    /\ ret.client \in DOMAIN sessions
    /\ LET s == sessions[ret.client]
       IN /\ s.fileId = ret.url.fileId
          /\ s.url = ret.url.url
          /\ s.setAt = toISOString(now)
          /\ s.lastAccessed = toISOString(now)
          /\ s.implementationStatus = <<>>
          /\ ret.val = s

C9_Witness ==
  /\ ret.op = "setWorkingFile"
  /\ ret.before # None
  /\ ret.before[1].implementationStatus # <<>>
  /\ ret.before[1].fileId # ret.url.fileId
  /\ getTime(ret.before[1].setAt) < now

\* C10: updateComponentStatus returns false and records nothing when the
\* client has no live session (none, or older than 24h); with a live session
\* it returns true, the entry of componentId holds the new status, name,
\* notes and framework, and every other component's entry is unchanged.
C10_UpdateStatus ==
  [][ret'.op = "updateComponentStatus" =>
       LET c == ret'.client
           id == ret'.componentId
           alive == /\ c \in DOMAIN sessions
                    /\ now - getTime(sessions[c].setAt) <= SESSION_TTL
       IN IF ~alive
          THEN ret'.val = FALSE /\ c \notin DOMAIN sessions'
          ELSE /\ ret'.val = TRUE
               /\ c \in DOMAIN sessions'
               /\ LET m == sessions[c].implementationStatus
                      m2 == sessions'[c].implementationStatus
                  IN /\ DOMAIN m2 = DOMAIN m \cup {id}
                     /\ m2[id].componentId = id
                     /\ m2[id].status = ret'.status
                     /\ m2[id].componentName = ret'.componentName
                     /\ m2[id].notes = ret'.options.notes
                     /\ m2[id].framework = ret'.options.framework
                     /\ \A x \in DOMAIN m \ {id} : m2[x] = m[x]]_vars

\* an update overwrote an entry while another component was tracked
C10_Witness ==
  /\ ret.op = "updateComponentStatus"
  /\ ret.val = TRUE
  /\ ret.before # None
  /\ ret.componentId \in DOMAIN ret.before[1].implementationStatus
  /\ ret.before[1].implementationStatus[ret.componentId].status # ret.status
  /\ Cardinality(DOMAIN sessions[ret.client].implementationStatus) = 2

\* C11: within one session a component's implementedAt is set by the first
\* update to implemented and kept by every later update that does not move
\* the status away from implemented and back: an implemented component
\* updated to implemented again, or to any other status, keeps the
\* implementedAt it had.
C11_ImplementedAtPreserved ==
  [][(ret'.op = "updateComponentStatus" /\ ret'.val = TRUE) =>
       LET c == ret'.client
           id == ret'.componentId
           m == sessions[c].implementationStatus
           m2 == sessions'[c].implementationStatus
       IN IF id \in DOMAIN m /\ m[id].status = "implemented"
          THEN m2[id].implementedAt = m[id].implementedAt
          ELSE IF ret'.status = "implemented"
               THEN m2[id].implementedAt = Some(toISOString(now))
               ELSE m2[id].implementedAt =
                      (IF id \in DOMAIN m THEN m[id].implementedAt ELSE None)]_vars

\* the status map a queue or summary call works on: the session's, when the
\* client had a session no older than 24 hours at the call, else empty
TrackedAtCall ==
  IF ret.before # None /\ now - getTime(ret.before[1].setAt) <= SESSION_TTL
  THEN ret.before[1].implementationStatus
  ELSE <<>>

BucketNames == {"pending", "inProgress", "implemented", "needsUpdate"}

\* the bucket the tracked status of a candidate names
ExpectedBucket(m, id) ==
  IF id \notin DOMAIN m THEN "pending"
  ELSE CASE m[id].status = "pending" -> "pending"
         [] m[id].status = "in-progress" -> "inProgress"
         [] m[id].status = "implemented" -> "implemented"
         [] m[id].status = "needs-update" -> "needsUpdate"

\* C12: getImplementationQueue partitions the candidate list: every candidate
\* is in exactly one of pending, inProgress, implemented, needsUpdate, the
\* one its tracked status names, untracked candidates (all of them without a
\* live session) in pending; each bucket keeps the input order and total =
\* components.length = the sum of the bucket sizes.
C12_QueuePartition ==
  ret.op = "getImplementationQueue" =>
    LET q == ret.val
        cs == ret.components
        m == TrackedAtCall
    IN /\ q.total = Len(cs)
       /\ q.total = Len(q.pending) + Len(q.inProgress) + Len(q.implemented)
                      + Len(q.needsUpdate)
       /\ \A i \in 1..Len(cs) :
            \A b \in BucketNames :
              (cs[i] \in Range(q[b])) <=> (b = ExpectedBucket(m, cs[i].id))
       /\ \A b \in BucketNames :
            q[b] = SelectSeq(cs, LAMBDA c : c \in Range(q[b]))

\* three candidates went to three different buckets, one of them untracked
C12_Witness ==
  /\ ret.op = "getImplementationQueue"
  /\ Len(ret.components) = 3
  /\ Len(ret.val.implemented) = 1
  /\ Len(ret.val.needsUpdate) = 1
  /\ Len(ret.val.pending) = 1
  /\ ret.val.pending[1].id \notin DOMAIN TrackedAtCall

\* the ids of a candidate list
IdsOf(components) == {components[i].id : i \in 1..Len(components)}

\* C13: for a working file with N candidates of which k are tracked as
\* implemented and the others untracked, getImplementationQueue puts exactly
\* those k in implemented and the other N-k in pending, and
\* getImplementationSummary reports completionPercentage = round(100*k/N)
\* over the same N components, 0 when N is 0.
C13_SummaryOverCandidates ==
  (ret.op = "getImplementationSummary" /\ ret.val.hasWorkingFile) =>
    LET m == ret.val.workingFile[1].implementationStatus
    IN \A cs \in CandidateLists :
         (/\ DOMAIN m \subseteq IdsOf(cs)
          /\ \A id \in DOMAIN m : m[id].status = "implemented")
         => LET N == Len(cs)
                k == Cardinality(DOMAIN m)
                q == getImplementationQueue(sessions, ret.client, cs, now).value
            IN /\ IdsOf(q.implemented) = DOMAIN m
               /\ Len(q.implemented) = k
               /\ Len(q.pending) = N - k
               /\ ret.val.stats.completionPercentage =
                    (IF N = 0 THEN 0 ELSE RoundPercent(k, N))

(***************************************************************************)
(* The design documents the upstream API serves.  A document is a table of *)
(* nodes; children lists the indices of a node's children in order.  v2    *)
(* and v3 are the file after an edit: c1 restyled, c1 removed.             *)
(***************************************************************************)
Files == {"f1"}
Versions == {"v1", "v2", "v3"}

Node(id, name, type, visual, children) ==
  [id |-> id, name |-> name, type |-> type, visual |-> visual, children |-> children]

Docs ==
  [v \in Versions |->
     IF v = "v1"
     THEN [name |-> "Design System", lastModified |-> "v1", root |-> 1,
           nodes |-> <<Node("0:0", "Document", "DOCUMENT", "none", <<2>>),
                       Node("0:1", "Page 1", "CANVAS", "none", <<3, 4>>),
                       Node("c2", "Card", "COMPONENT_SET", "white", <<5>>),
                       Node("c1", "Button", "COMPONENT", "red", <<>>),
                       Node("c3", "Card/Primary", "COMPONENT", "white", <<>>)>>]
     ELSE IF v = "v2"
     THEN [name |-> "Design System", lastModified |-> "v2", root |-> 1,
           nodes |-> <<Node("0:0", "Document", "DOCUMENT", "none", <<2>>),
                       Node("0:1", "Page 1", "CANVAS", "none", <<3, 4>>),
                       Node("c2", "Card", "COMPONENT_SET", "white", <<5>>),
                       Node("c1", "Button", "COMPONENT", "blue", <<>>),
                       Node("c3", "Card/Primary", "COMPONENT", "white", <<>>)>>]
     ELSE [name |-> "Design System", lastModified |-> "v3", root |-> 1,
           nodes |-> <<Node("0:0", "Document", "DOCUMENT", "none", <<2>>),
                       Node("0:1", "Page 1", "CANVAS", "none", <<3>>),
                       Node("c2", "Card", "COMPONENT_SET", "white", <<4>>),
                       Node("c3", "Card/Primary", "COMPONENT", "white", <<>>)>>]]

componentKey(fileId, componentId) == <<"component", fileId, componentId>>
componentSpecKey(fileId, componentId) == <<"spec", fileId, componentId>>

Ok(v) == [ok |-> TRUE, value |-> v]
Err(e) == [ok |-> FALSE, error |-> e]

\* figmaClient.getFile: the document as it is upstream, or a failed request
getFile(up, fileId, outcome) ==
  IF outcome = "ok" THEN Ok(Docs[up[fileId]]) ELSE Err("UpstreamUnavailable")

(***************************************************************************)
(* ComponentExtractor.                                                     *)
(***************************************************************************)
RECURSIVE findInNode(_, _, _)
findInNode(file, n, componentId) ==
  IF file.nodes[n].id = componentId THEN Some(file.nodes[n])
  ELSE LET kids == file.nodes[n].children
           hits == {i \in 1..Len(kids) : findInNode(file, kids[i], componentId) # None}
       IN IF hits = {} THEN None
          ELSE findInNode(file, kids[CHOOSE i \in hits : \A j \in hits : i <= j], componentId)

findComponentInFile(file, componentId) == findInNode(file, file.root, componentId)

extractVariants(component, file) == <<>>

isInteractiveComponent(component) == component.name \in {"Button"}

inferAriaRole(component) == IF component.name \in {"Button"} THEN Some("button") ELSE None

processComponent(component, file, includeVariants, includeInstances) ==
  [id |-> component.id,
   name |-> component.name,
   type |-> component.type,
   properties |-> component.visual,
   variants |-> IF includeVariants /\ component.type = "COMPONENT_SET"
                THEN Some(extractVariants(component, file)) ELSE None,
   events |-> IF isInteractiveComponent(component) THEN <<"click">> ELSE <<>>]

\* an extraction that stores what the lookup found before testing it
extractComponent_cacheFirst(c, up, fileId, componentId, includeVariants, includeInstances, outcome, t) ==
  LET key == componentKey(fileId, componentId)
      g == CacheGet(c, key, t)
  IN IF g.value # None THEN [cache |-> g.cache, result |-> Ok(g.value[1]), fetches |-> 0]
     ELSE LET file == getFile(up, fileId, outcome) IN
          IF ~file.ok THEN [cache |-> g.cache, result |-> file, fetches |-> 1]
          ELSE LET component == findComponentInFile(file.value, componentId)
                   c2 == CacheSet(g.cache, DEFAULT_MAX, key, component, Some(TTL_component), t)
               IN IF component = None
                  THEN [cache |-> c2, result |-> Err("NotFound"), fetches |-> 1]
                  ELSE [cache |-> c2, fetches |-> 1,
                        result |-> Ok(processComponent(component[1], file.value,
                                                       includeVariants, includeInstances))]

extractComponent(c, up, fileId, componentId, includeVariants, includeInstances, outcome, t) ==
  LET key == componentKey(fileId, componentId)
      g == CacheGet(c, key, t)
  IN IF g.value # None THEN [cache |-> g.cache, result |-> Ok(g.value[1]), fetches |-> 0]
     ELSE LET file == getFile(up, fileId, outcome) IN
          IF ~file.ok THEN [cache |-> g.cache, result |-> file, fetches |-> 1]
          ELSE LET component == findComponentInFile(file.value, componentId) IN
               IF component = None
               THEN [cache |-> g.cache, result |-> Err("NotFound"), fetches |-> 1]
               ELSE LET componentData == processComponent(component[1], file.value,
                                                          includeVariants, includeInstances)
                    IN [cache |-> CacheSet(g.cache, DEFAULT_MAX, key, componentData,
                                           Some(TTL_component), t),
                        result |-> Ok(componentData), fetches |-> 1]

buildComponentSpecification(componentData, component, includeAccessibility, includeInteractions) ==
  [component |-> componentData,
   styling |-> component.visual,
   accessibility |-> IF includeAccessibility
                     THEN Some([role |-> inferAriaRole(component),
                                keyboard |-> isInteractiveComponent(component)])
                     ELSE None,
   interactions |-> IF includeInteractions THEN Some(component.visual) ELSE None,
   usage |-> componentData.name]

\* a specification cached with the listing's TTL instead of its own
extractComponentSpecification_listTtl(c, up, fileId, componentId, includeAccessibility, includeInteractions, outcome1, outcome2, t) ==
  LET key == componentSpecKey(fileId, componentId)
      g == CacheGet(c, key, t)
  IN IF g.value # None THEN [cache |-> g.cache, result |-> Ok(g.value[1]), fetches |-> 0]
     ELSE LET e == extractComponent(g.cache, up, fileId, componentId, TRUE, FALSE, outcome1, t) IN
          IF ~e.result.ok THEN e
          ELSE LET file == getFile(up, fileId, outcome2) IN
               IF ~file.ok THEN [cache |-> e.cache, result |-> file, fetches |-> e.fetches + 1]
               ELSE LET component == findComponentInFile(file.value, componentId) IN
                    IF component = None
                    THEN [cache |-> e.cache, result |-> Err("NotFound"), fetches |-> e.fetches + 1]
                    ELSE LET specification ==
                               buildComponentSpecification(e.result.value, component[1],
                                                           includeAccessibility, includeInteractions)
                         IN [cache |-> CacheSet(e.cache, DEFAULT_MAX, key, specification,
                                                Some(TTL_componentList), t),
                             result |-> Ok(specification), fetches |-> e.fetches + 1]

extractComponentSpecification(c, up, fileId, componentId, includeAccessibility, includeInteractions, outcome1, outcome2, t) ==
  LET key == componentSpecKey(fileId, componentId)
      g == CacheGet(c, key, t)
  IN IF g.value # None THEN [cache |-> g.cache, result |-> Ok(g.value[1]), fetches |-> 0]
     ELSE LET e == extractComponent(g.cache, up, fileId, componentId, TRUE, FALSE, outcome1, t) IN
          IF ~e.result.ok THEN e
          ELSE LET file == getFile(up, fileId, outcome2) IN
               IF ~file.ok THEN [cache |-> e.cache, result |-> file, fetches |-> e.fetches + 1]
               ELSE LET component == findComponentInFile(file.value, componentId) IN
                    IF component = None
                    THEN [cache |-> e.cache, result |-> Err("NotFound"), fetches |-> e.fetches + 1]
                    ELSE LET specification ==
                               buildComponentSpecification(e.result.value, component[1],
                                                           includeAccessibility, includeInteractions)
                         IN [cache |-> CacheSet(e.cache, DEFAULT_MAX, key, specification,
                                                Some(TTL_componentSpec), t),
                             result |-> Ok(specification), fetches |-> e.fetches + 1]

(***************************************************************************)
(* Inputs and actions of the server: the extractor over the server's       *)
(* cache, new CacheService(), and the upstream file being edited.          *)
(***************************************************************************)
ComponentArgs == {"c1", "c9"}
FetchOutcomes == {"ok", "error"}
ServerDeltas == {1, TTL_componentSpec}
ServerKeys ==
  {componentKey(f, c) : f \in Files, c \in ComponentArgs}
    \cup {componentSpecKey(f, c) : f \in Files, c \in ComponentArgs}

\* the entries last stored, after an operation took the cache from c to c2
LiveAfter(l, c, c2) ==
  [k \in {x \in DOMAIN c2.items :
            \/ x \in DOMAIN l
            \/ x \notin DOMAIN c.items
            \/ c2.items[x].value # c.items[x].value} |-> c2.items[k].value]

ServerStep(r, record, key) ==
  /\ cache' = r.cache
  /\ live' = LiveAfter(live, cache, r.cache)
  /\ ret' = [x \in DOMAIN record \cup {"result", "fetches", "stored"} |->
               IF x = "result" THEN r.result
               ELSE IF x = "fetches" THEN r.fetches
               ELSE IF x = "stored" THEN LiveEntry(live, key)
               ELSE record[x]]
  /\ UNCHANGED <<now, ticks, recent, sessions, upstream, figmaVariablesMetadata, walk, rateLimiter, figmaClient, inflight>>

ExtractComponent(f, id, includeVariants, includeInstances, outcome) ==
  ServerStep(extractComponent(cache, upstream, f, id, includeVariants, includeInstances,
                              outcome, now),
             [op |-> "extractComponent", fileId |-> f, componentId |-> id,
              includeVariants |-> includeVariants, outcome |-> outcome],
             componentKey(f, id))

ExtractComponentSpecification(f, id, includeAccessibility, includeInteractions, o1, o2) ==
  ServerStep(extractComponentSpecification(cache, upstream, f, id, includeAccessibility,
                                           includeInteractions, o1, o2, now),
             [op |-> "extractComponentSpecification", fileId |-> f, componentId |-> id],
             componentSpecKey(f, id))

ModifyFile(f, v) ==
  /\ upstream[f] # v
  /\ upstream' = [upstream EXCEPT ![f] = v]
  /\ ret' = [op |-> "modifyFile", fileId |-> f]
  /\ UNCHANGED <<now, ticks, cache, recent, live, sessions, figmaVariablesMetadata, walk, rateLimiter, figmaClient, inflight>>

TickServer ==
  /\ ticks < MaxTicks
  /\ \E d \in ServerDeltas : now' = now + d
  /\ ticks' = ticks + 1
  /\ ret' = [op |-> "tick"]
  /\ UNCHANGED <<cache, recent, live, sessions, upstream, figmaVariablesMetadata, walk, rateLimiter, figmaClient, inflight>>

NextServer ==
  \/ \E f \in Files, id \in ComponentArgs, iv \in BOOLEAN, o \in FetchOutcomes :
       ExtractComponent(f, id, iv, FALSE, o)
  \/ \E f \in Files, id \in ComponentArgs, ia \in BOOLEAN, o1, o2 \in FetchOutcomes :
       ExtractComponentSpecification(f, id, ia, TRUE, o1, o2)
  \/ \E k \in ServerKeys : Delete(k)
  \/ \E f \in Files, v \in Versions : ModifyFile(f, v)
  \/ TickServer

SpecServer == Init /\ [][NextServer]_vars

(***************************************************************************)
(* Properties of the component extractor.                                  *)
(***************************************************************************)
\* C6: once a specification of (fileId, componentId) is stored, every later
\* call for the same pair within the 1-hour TTL, with no deletion or
\* eviction of the entry in between, returns that same specification and
\* makes no upstream request.
C6_SpecificationFromCache ==
  (/\ ret.op = "extractComponentSpecification"
   /\ ret.stored # None
   /\ now - ret.stored[1].timestamp <= TTL_componentSpec)
  => /\ ret.result = Ok(ret.stored[1].data)
     /\ ret.fetches = 0

\* a call at the very end of the window, after the component was removed
\* upstream, is still answered from the cache
C6_Witness ==
  /\ ret.op = "extractComponentSpecification"
  /\ ret.stored # None
  /\ now - ret.stored[1].timestamp = TTL_componentSpec
  /\ ret.fetches = 0
  /\ ret.result.ok
  /\ upstream[ret.fileId] = "v3"

\* C7: when the fetched document has no node with the id, extractComponent
\* fails with NotFound and writes nothing: the cache is as before, apart
\* from an expired entry of that key which the lookup dropped, and a later
\* call requests the document again.
C7_NotFoundWritesNothing ==
  [][(/\ ret'.op = "extractComponent"
      /\ ret'.fetches = 1
      /\ ret'.outcome = "ok"
      /\ findComponentInFile(Docs[upstream[ret'.fileId]], ret'.componentId) = None)
     => LET key == componentKey(ret'.fileId, ret'.componentId)
        IN /\ ret'.result = Err("NotFound")
           /\ cache' = LruDelete(cache, key)
           /\ ~LruHas(cache', key)
           /\ \A o \in FetchOutcomes, iv \in BOOLEAN :
                extractComponent(cache', upstream', ret'.fileId, ret'.componentId,
                                 iv, FALSE, o, now').fetches = 1]_vars

\* the component had been cached, was removed upstream, and its entry
\* expired: the call fails while the specification entry stays in the cache
C7_Witness ==
  /\ ret.op = "extractComponent"
  /\ ~ret.result.ok
  /\ ret.result.error = "NotFound"
  /\ ret.stored # None
  /\ LruHas(cache, componentSpecKey(ret.fileId, ret.componentId))
  /\ ~LruHas(cache, componentKey(ret.fileId, ret.componentId))

(***************************************************************************)
(* DesignTokenExtractor.  The styles and local variables the upstream API  *)
(* serves for a file; a token name is the normalised style name.           *)
(***************************************************************************)
TokenFiles == {"f1", "f2"}

FileStyles ==
  [f \in TokenFiles |->
     IF f = "f1"
     THEN <<[name |-> "Primary/Blue", style_type |-> "FILL"],
            [name |-> "Heading 1", style_type |-> "TEXT"],
            [name |-> "Layout", style_type |-> "GRID"]>>
     ELSE <<[name |-> "Shadow/Soft", style_type |-> "EFFECT"]>>]

\* a JavaScript value by its type and its written form
JsValue(type, repr) == [type |-> type, repr |-> repr]

\* the values !v takes for true among those the inputs hold
Falsy(v) ==
  \/ v.type = "number" /\ v.repr = "0"
  \/ v.type = "boolean" /\ v.repr = "false"
  \/ v.type = "string" /\ v.repr = ""

\* variable collections by id; every collection names its default mode
VariableCollections ==
  [id \in {"Theme", "Layout", "Copy", "Flags"} |->
     [name |-> id, defaultModeId |-> "light"]]

Variable(name, resolvedType, variableCollectionId, valuesByMode) ==
  [name |-> name, resolvedType |-> resolvedType,
   variableCollectionId |-> variableCollectionId, valuesByMode |-> valuesByMode]

LocalVariables ==
  [f \in TokenFiles |->
     IF f = "f1"
     THEN <<Variable("brand", "COLOR", "Theme",
                     [light |-> JsValue("object", "rgba(0,0,1,1)")])>>
     ELSE <<Variable("gap", "FLOAT", "Layout", [light |-> JsValue("number", "8")])>>]

\* lower case, runs of other characters to one '-', no '-' at either end
normalizeTokenName(name) ==
  CASE name = "Primary/Blue" -> "primary-blue"
    [] name = "Heading 1" -> "heading-1"
    [] name = "Layout" -> "layout"
    [] name = "Shadow/Soft" -> "shadow-soft"
    [] name = "Theme-brand" -> "theme-brand"
    [] name = "Layout-gap" -> "layout-gap"
    [] name = "Theme-surface" -> "theme-surface"
    [] name = "Theme-logo" -> "theme-logo"
    [] name = "Theme-accent" -> "theme-accent"
    [] name = "Layout-columns" -> "layout-columns"
    [] name = "Layout-border" -> "layout-border"
    [] name = "Copy-title" -> "copy-title"
    [] name = "Copy-font" -> "copy-font"
    [] name = "Flags-visible" -> "flags-visible"
    [] name = "Flags-enabled" -> "flags-enabled"

inferColorCategory(name) ==
  CASE name \in {"Primary/Blue", "brand"} -> "primary"
    [] name = "accent" -> "secondary"
    [] name = "surface" -> "background"
    [] OTHER -> "miscellaneous"

inferTypographyCategory(name) ==
  IF name = "Heading 1" THEN "headings" ELSE "miscellaneous"

inferEffectCategory(name) ==
  IF name = "Shadow/Soft" THEN "shadows" ELSE "effects"

convertStyleToToken(style) ==
  CASE style.style_type = "FILL" ->
         Some([name |-> normalizeTokenName(style.name), type |-> "color",
               category |-> inferColorCategory(style.name)])
    [] style.style_type = "TEXT" ->
         Some([name |-> normalizeTokenName(style.name), type |-> "typography",
               category |-> inferTypographyCategory(style.name)])
    [] style.style_type = "EFFECT" ->
         Some([name |-> normalizeTokenName(style.name), type |-> "effect",
               category |-> inferEffectCategory(style.name)])
    [] OTHER -> None

mapVariableTypeToTokenType(type) ==
  CASE type = "COLOR" -> "color"
    [] type = "FLOAT" -> "spacing"
    [] type = "STRING" -> "content"
    [] type = "BOOLEAN" -> "boolean"
    [] OTHER -> "unknown"

inferVariableCategory(name, type) ==
  CASE type = "COLOR" -> inferColorCategory(name)
    [] type = "FLOAT" -> CASE name = "gap" -> "spacing"
                           [] name = "border" -> "border"
                           [] OTHER -> "dimension"
    [] type = "STRING" -> IF name = "font" THEN "font-family" ELSE "content"
    [] OTHER -> "miscellaneous"

\* null when !valuesByMode[defaultModeId]: the entry is missing or falsy
convertVariableToToken(variable) ==
  LET collection == VariableCollections[variable.variableCollectionId]
      defaultModeId == collection.defaultModeId
      valuesByMode == variable.valuesByMode
  IN IF defaultModeId \notin DOMAIN valuesByMode \/ Falsy(valuesByMode[defaultModeId])
     THEN None
     ELSE Some([name |-> normalizeTokenName(collection.name \o "-" \o variable.name),
                type |-> mapVariableTypeToTokenType(variable.resolvedType),
                category |-> inferVariableCategory(variable.name, variable.resolvedType)])

getCollectionFromTokenType(type) ==
  CASE type = "color" -> "colors"
    [] type = "typography" -> "typography"
    [] type = "effect" -> "effects"
    [] OTHER -> "spacing"

getCollectionFromCategory(category) ==
  CASE category \in {"primary", "secondary", "neutral", "semantic", "text",
                     "background", "border"} -> Some("colors")
    [] category \in {"spacing", "dimension", "radius"} -> Some("spacing")
    [] category = "font-family" -> Some("typography")
    [] category \in {"shadows", "blur", "glow"} -> Some("effects")
    [] OTHER -> None

CollectionNames == {"colors", "typography", "spacing", "effects", "variables"}

\* mutant of processStylesAndVariables: variable tokens in variables only
processStylesAndVariables_variablesOnly(styles, variables) ==
  LET converted == [i \in 1..Len(styles) |-> convertStyleToToken(styles[i])]
      present == SelectSeq(converted, LAMBDA o : o # None)
      styleTokens == [i \in 1..Len(present) |-> present[i][1]]
      tokenOf == [i \in 1..Len(variables) |-> convertVariableToToken(variables[i])]
      yielded == SelectSeq(tokenOf, LAMBDA o : o # None)
      variableTokens == [i \in 1..Len(yielded) |-> yielded[i][1]]
      collect(x) ==
        SelectSeq(styleTokens, LAMBDA tk : getCollectionFromTokenType(tk.type) = x)
  IN [colors |-> collect("colors"),
      typography |-> collect("typography"),
      spacing |-> collect("spacing"),
      effects |-> collect("effects"),
      variables |-> variableTokens,
      metadata |-> Some([variablesAvailable |-> TRUE,
                         variablesMessage |-> None,
                         planRequired |-> None])]

processStylesAndVariables(styles, variables) ==
  LET converted == [i \in 1..Len(styles) |-> convertStyleToToken(styles[i])]
      present == SelectSeq(converted, LAMBDA o : o # None)
      styleTokens == [i \in 1..Len(present) |-> present[i][1]]
      tokenOf == [i \in 1..Len(variables) |-> convertVariableToToken(variables[i])]
      yielded == SelectSeq(tokenOf, LAMBDA o : o # None)
      variableTokens == [i \in 1..Len(yielded) |-> yielded[i][1]]
      collect(x) ==
        SelectSeq(styleTokens, LAMBDA tk : getCollectionFromTokenType(tk.type) = x)
          \o SelectSeq(variableTokens,
                       LAMBDA tk : getCollectionFromCategory(tk.category) = Some(x))
  IN [colors |-> collect("colors"),
      typography |-> collect("typography"),
      spacing |-> collect("spacing"),
      effects |-> collect("effects"),
      variables |-> variableTokens,
      metadata |-> Some([variablesAvailable |-> TRUE,
                         variablesMessage |-> None,
                         planRequired |-> None])]

filterTokenTypes(tokens, tokenTypes) ==
  IF "all" \in Range(tokenTypes) THEN tokens
  ELSE [x \in CollectionNames \cup {"metadata"} |->
          IF x = "metadata" THEN None
          ELSE IF x \in Range(tokenTypes) THEN tokens[x] ELSE <<>>]

designTokensKey(fileId) == <<"tokens", fileId>>

\* the ways a request to the upstream API ends: with its data, or with a
\* FigmaApiError carrying the HTTP status and the words of its message
VariablesOutcomes == {"ok", "403-variables-scope", "403-scope", "403", "500"}

FigmaApiError(outcome) ==
  CASE outcome = "403-variables-scope" ->
         [status |-> 403, message |-> <<"Invalid", "scope", "requires", "file_variables:read">>]
    [] outcome = "403-scope" -> [status |-> 403, message |-> <<"Invalid", "scope">>]
    [] outcome = "403" -> [status |-> 403, message |-> <<"Forbidden">>]
    [] OTHER -> [status |-> 500, message |-> <<"Internal", "error">>]

includes(message, word) == word \in Range(message)

getFileStyles(fileId, outcome) ==
  IF outcome = "ok" THEN Ok(FileStyles[fileId]) ELSE Err(FigmaApiError("500"))

getLocalVariables(fileId, outcome) ==
  IF outcome = "ok" THEN Ok(LocalVariables[fileId]) ELSE Err(FigmaApiError(outcome))

\* a catch block that reports every failure as a passing outage
variablesLimitation_outage(error) ==
  [variablesAvailable |-> FALSE,
   variablesMessage |-> Some("Variables API temporarily unavailable"),
   planRequired |-> None]

\* what the catch block of the variables request leaves in the global
variablesLimitation(error) ==
  IF error.status = 403
  THEN IF includes(error.message, "file_variables:read")
       THEN [variablesAvailable |-> FALSE,
             variablesMessage |->
               Some("Figma Variables require Enterprise plan. Using legacy styles only."),
             planRequired |-> Some("Enterprise")]
       ELSE IF includes(error.message, "scope")
       THEN [variablesAvailable |-> FALSE,
             variablesMessage |->
               Some("Insufficient permissions for Variables API. May require Enterprise plan."),
             planRequired |-> Some("Enterprise")]
       ELSE [variablesAvailable |-> FALSE,
             variablesMessage |-> Some("Access denied to Variables API"),
             planRequired |-> None]
  ELSE [variablesAvailable |-> FALSE,
        variablesMessage |-> Some("Variables API temporarily unavailable"),
        planRequired |-> None]

\* global is the value of __figmaVariablesMetadata at the call
extractTokens(c, global, fileId, tokenTypes, stylesOutcome, variablesOutcome, t) ==
  LET cacheKey == designTokensKey(fileId)
      g == CacheGet(c, cacheKey, t)
  IN IF g.value # None
     THEN [cache |-> g.cache, global |-> global, fetches |-> 0,
           result |-> Ok(filterTokenTypes(g.value[1], tokenTypes))]
     ELSE LET stylesResponse == getFileStyles(fileId, stylesOutcome) IN
          IF ~stylesResponse.ok
          THEN [cache |-> g.cache, global |-> global, fetches |-> 1,
                result |-> stylesResponse]
          ELSE LET variablesResponse == getLocalVariables(fileId, variablesOutcome)
                   variables == IF variablesResponse.ok THEN variablesResponse.value
                                ELSE <<>>
                   global2 == IF variablesResponse.ok THEN global
                              ELSE Some(variablesLimitation(variablesResponse.error))
                   processed == processStylesAndVariables(stylesResponse.value, variables)
                   tokens == IF global2 # None
                             THEN [processed EXCEPT !.metadata = global2]
                             ELSE processed
                   filtered == filterTokenTypes(tokens, tokenTypes)
               IN [cache |-> CacheSet(g.cache, DEFAULT_MAX, cacheKey, tokens,
                                      Some(TTL_designTokens), t),
                   global |-> global2, fetches |-> 2,
                   result |-> Ok(IF tokens.metadata # None
                                 THEN [filtered EXCEPT !.metadata = tokens.metadata]
                                 ELSE filtered)]

(***************************************************************************)
(* Inputs and actions of the token extractor over the server's cache.      *)
(***************************************************************************)
TokenTypesArgs == {<<"all">>, <<"variables", "typography">>, <<"colors", "all">>}
\* how the variables request for a file can end: f1 belongs to a plan with
\* or without the variables scope, f2 to one that has it
VariablesOutcomesFor(f) == IF f = "f1" THEN VariablesOutcomes ELSE {"ok", "500"}
TokenDeltas == {DEFAULT_TTL}
TokenKeys == {designTokensKey(f) : f \in TokenFiles}

ExtractTokens(f, tokenTypes, stylesOutcome, variablesOutcome) ==
  \E r \in {extractTokens(cache, figmaVariablesMetadata, f, tokenTypes, stylesOutcome,
                          variablesOutcome, now)} :
    /\ cache' = r.cache
    /\ live' = LiveAfter(live, cache, r.cache)
    /\ figmaVariablesMetadata' = r.global
    /\ ret' = [op |-> "extractTokens", fileId |-> f, tokenTypes |-> tokenTypes,
               stylesOutcome |-> stylesOutcome, variablesOutcome |-> variablesOutcome,
               result |-> r.result, fetches |-> r.fetches]
    /\ UNCHANGED <<now, ticks, recent, sessions, upstream, walk, rateLimiter, figmaClient, inflight>>

TickTokens ==
  /\ ticks < MaxTicks
  /\ \E d \in TokenDeltas : now' = now + d
  /\ ticks' = ticks + 1
  /\ ret' = [op |-> "tick"]
  /\ UNCHANGED <<cache, recent, live, sessions, upstream, figmaVariablesMetadata, walk, rateLimiter, figmaClient, inflight>>

NextTokens ==
  \/ \E f \in TokenFiles, tt \in TokenTypesArgs, so \in FetchOutcomes :
       \E vo \in VariablesOutcomesFor(f) : ExtractTokens(f, tt, so, vo)
  \/ \E k \in TokenKeys : Delete(k)
  \/ TickTokens

SpecTokens == Init /\ [][NextTokens]_vars

(***************************************************************************)
(* Properties of the token extractor.                                      *)
(***************************************************************************)
\* the collections of a token collection, without its metadata
CollectionsOf(tokens) == [x \in CollectionNames |-> tokens[x]]

\* C14: when the variables request fails (403 or otherwise) and the styles
\* request succeeds, extractTokens does not fail: it returns the collection
\* made from the styles alone, with metadata variablesAvailable = false and
\* a variablesMessage, and planRequired when the failure is a 403 about the
\* scope or plan.
C14_DegradedVariables ==
  (/\ ret.op = "extractTokens"
   /\ ret.fetches = 2
   /\ ret.variablesOutcome # "ok")
  => /\ ret.result.ok
     /\ CollectionsOf(ret.result.value) =
          CollectionsOf(filterTokenTypes(
                          processStylesAndVariables(FileStyles[ret.fileId], <<>>),
                          ret.tokenTypes))
     /\ ret.result.value.variables = <<>>
     /\ ret.result.value.metadata # None
     /\ LET md == ret.result.value.metadata[1]
        IN /\ md.variablesAvailable = FALSE
           /\ md.variablesMessage # None
           /\ ret.variablesOutcome \in {"403-variables-scope", "403-scope"}
                => md.planRequired = Some("Enterprise")

\* a scope 403 on the variables of a file whose styles gave two tokens
C14_Witness ==
  /\ ret.op = "extractTokens"
  /\ ret.fetches = 2
  /\ ret.variablesOutcome = "403-scope"
  /\ ret.result.ok
  /\ ret.tokenTypes = <<"all">>
  /\ Len(ret.result.value.colors) = 1
  /\ Len(ret.result.value.typography) = 1
  /\ ret.result.value.metadata[1].planRequired = Some("Enterprise")

\* C15: the availability metadata survives the token-type filter: for every
\* tokenTypes argument, on the cache-miss path and on the cache-hit path,
\* the result of extractTokens carries the metadata of the full collection
\* cached under tokens:{fileId}.
C15_MetadataThroughFilter ==
  (ret.op = "extractTokens" /\ ret.result.ok)
  => LET key == designTokensKey(ret.fileId)
     IN /\ LruHas(cache, key)
        /\ ret.result.value.metadata = cache.items[key].value.data.metadata

\* C16: the availability metadata of a collection depends only on the
\* variables request of the synthesis that made it: when that request
\* succeeds the result reports variablesAvailable = true, whatever earlier
\* calls for this or another file met.
C16_MetadataFromThisCall ==
  (/\ ret.op = "extractTokens"
   /\ ret.fetches = 2
   /\ ret.variablesOutcome = "ok")
  => /\ ret.result.ok
     /\ ret.result.value.metadata # None
     /\ ret.result.value.metadata[1].variablesAvailable = TRUE

(***************************************************************************)
(* ComponentExtractor: the component listing and the change check.         *)
(***************************************************************************)
componentListKey(fileId) == <<"components", fileId>>

countVariants(component) == Len(component.children)

\* the components below node n in document order, parents before children
RECURSIVE traverse(_, _)
RECURSIVE traverseAll(_, _)
traverse(file, n) ==
  LET node == file.nodes[n]
      own == IF node.type = "COMPONENT" \/ node.type = "COMPONENT_SET"
             THEN <<[id |-> node.id,
                     name |-> node.name,
                     type |-> node.type,
                     variantCount |-> IF node.type = "COMPONENT_SET"
                                      THEN Some(countVariants(node)) ELSE None,
                     lastModified |-> file.lastModified,
                     published |-> TRUE]>>
             ELSE <<>>
  IN own \o traverseAll(file, node.children)

traverseAll(file, kids) ==
  IF kids = <<>> THEN <<>>
  ELSE traverse(file, Head(kids)) \o traverseAll(file, Tail(kids))

extractComponentList(file) == traverse(file, file.root)

\* a name or pattern word in lower case, as the 'i' flag compares them
toLowerCase(w) ==
  CASE w = "Button" -> "button"
    [] w = "Card" -> "card"
    [] w = "CARD" -> "card"
    [] w = "Primary" -> "primary"
    [] w = "Hover" -> "hover"
    [] w = "Disabled" -> "disabled"
    [] w = "State=" -> "state="
    [] OTHER -> w

\* the words and separators a component name is made of
NameWords(name) ==
  CASE name = "Button" -> <<"Button">>
    [] name = "Card" -> <<"Card">>
    [] name = "Card/Primary" -> <<"Card", "/", "Primary">>

LowerAll(ws) == [i \in 1..Len(ws) |-> toLowerCase(ws[i])]

\* new RegExp(pattern, 'i').test(name)
RegexTestIgnoreCase(pattern, name) == RegexTest(LowerAll(pattern), LowerAll(NameWords(name)))

applyFilters(components, filter) ==
  IF filter = None THEN components
  ELSE SelectSeq(components,
         LAMBDA component :
           /\ filter[1].type # None => component.type = filter[1].type[1]
           /\ filter[1].name # None => RegexTestIgnoreCase(filter[1].name[1], component.name)
           /\ filter[1].published # None => component.published = filter[1].published[1])

\* a listing that stores what the caller's filter left
listComponents_cacheFiltered(c, up, fileId, filter, outcome, t) ==
  LET cacheKey == componentListKey(fileId)
      g == CacheGet(c, cacheKey, t)
      listing(components) ==
        LET filteredComponents == applyFilters(components, filter)
        IN Ok([components |-> filteredComponents,
               totalCount |-> Len(filteredComponents),
               hasMore |-> FALSE])
  IN IF g.value # None
     THEN [cache |-> g.cache, result |-> listing(g.value[1]), fetches |-> 0]
     ELSE LET file == getFile(up, fileId, outcome) IN
          IF ~file.ok THEN [cache |-> g.cache, result |-> file, fetches |-> 1]
          ELSE LET components == applyFilters(extractComponentList(file.value), filter)
               IN [cache |-> CacheSet(g.cache, DEFAULT_MAX, cacheKey, components,
                                      Some(TTL_componentList), t),
                   result |-> listing(components), fetches |-> 1]

listComponents(c, up, fileId, filter, outcome, t) ==
  LET cacheKey == componentListKey(fileId)
      g == CacheGet(c, cacheKey, t)
      listing(components) ==
        LET filteredComponents == applyFilters(components, filter)
        IN Ok([components |-> filteredComponents,
               totalCount |-> Len(filteredComponents),
               hasMore |-> FALSE])
  IN IF g.value # None
     THEN [cache |-> g.cache, result |-> listing(g.value[1]), fetches |-> 0]
     ELSE LET file == getFile(up, fileId, outcome) IN
          IF ~file.ok THEN [cache |-> g.cache, result |-> file, fetches |-> 1]
          ELSE LET components == extractComponentList(file.value)
               IN [cache |-> CacheSet(g.cache, DEFAULT_MAX, cacheKey, components,
                                      Some(TTL_componentList), t),
                   result |-> listing(components), fetches |-> 1]

\* new Date(s).getTime() for the lastModified of the upstream versions and
\* for the ISO strings a caller sends
DateOf(s) ==
  CASE s = "v1" -> 1000
    [] s = "v2" -> 2000
    [] s = "v3" -> 3000
    [] s = "1970-01-01T00:00:01.000Z" -> 1000
    [] s = "1970-01-01T00:00:02.500Z" -> 2500

\* a check that also reports a file modified exactly at the last sync
checkChanges_notBefore(up, fileId, lastSyncTimestamp, outcome) ==
  LET file == getFile(up, fileId, outcome) IN
  IF ~file.ok THEN file
  ELSE LET lastSync == DateOf(lastSyncTimestamp)
           fileLastModified == DateOf(file.value.lastModified)
       IN IF fileLastModified < lastSync
          THEN Ok([hasChanges |-> FALSE, changedComponents |-> <<>>,
                   newComponents |-> <<>>, deletedComponents |-> <<>>])
          ELSE LET components == extractComponentList(file.value)
                   recentlyModified ==
                     SelectSeq(components,
                               LAMBDA component : DateOf(component.lastModified) >= lastSync)
               IN Ok([hasChanges |-> Len(recentlyModified) > 0,
                      changedComponents |->
                        [i \in 1..Len(recentlyModified) |->
                           [id |-> recentlyModified[i].id,
                            name |-> recentlyModified[i].name,
                            changeType |-> "modified",
                            lastModified |-> recentlyModified[i].lastModified,
                            changes |-> <<"properties">>]],
                      newComponents |-> <<>>,
                      deletedComponents |-> <<>>])

checkChanges(up, fileId, lastSyncTimestamp, outcome) ==
  LET file == getFile(up, fileId, outcome) IN
  IF ~file.ok THEN file
  ELSE LET lastSync == DateOf(lastSyncTimestamp)
           fileLastModified == DateOf(file.value.lastModified)
       IN IF fileLastModified <= lastSync
          THEN Ok([hasChanges |-> FALSE, changedComponents |-> <<>>,
                   newComponents |-> <<>>, deletedComponents |-> <<>>])
          ELSE LET components == extractComponentList(file.value)
                   recentlyModified ==
                     SelectSeq(components,
                               LAMBDA component : DateOf(component.lastModified) > lastSync)
               IN Ok([hasChanges |-> Len(recentlyModified) > 0,
                      changedComponents |->
                        [i \in 1..Len(recentlyModified) |->
                           [id |-> recentlyModified[i].id,
                            name |-> recentlyModified[i].name,
                            changeType |-> "modified",
                            lastModified |-> recentlyModified[i].lastModified,
                            changes |-> <<"properties">>]],
                      newComponents |-> <<>>,
                      deletedComponents |-> <<>>])

(***************************************************************************)
(* Inputs and actions of the listing, the change check and the extraction  *)
(* of a component set, over the server's cache.                            *)
(***************************************************************************)
NoFilter == [type |-> None, name |-> None, published |-> None]
FilterArgs ==
  {None,
   Some([NoFilter EXCEPT !.type = Some("COMPONENT")]),
   Some([NoFilter EXCEPT !.name = Some(<<"^", "CARD">>)]),
   Some([NoFilter EXCEPT !.type = Some("COMPONENT_SET"), !.name = Some(<<"Primary", "$">>)]),
   Some([NoFilter EXCEPT !.published = Some(FALSE)])}
LastSyncArgs == {"1970-01-01T00:00:01.000Z", "1970-01-01T00:00:02.500Z"}
SetArgs == {"c2"}
ExtractorDeltas == {1, TTL_componentList}
ExtractorKeys == {componentListKey(f) : f \in Files} \cup {componentKey(f, "c2") : f \in Files}

ListComponents(f, filter, outcome) ==
  ServerStep(listComponents(cache, upstream, f, filter, outcome, now),
             [op |-> "listComponents", fileId |-> f, filter |-> filter, outcome |-> outcome],
             componentListKey(f))

CheckChanges(f, lastSyncTimestamp, outcome) ==
  /\ ret' = [op |-> "checkChanges", fileId |-> f, lastSyncTimestamp |-> lastSyncTimestamp,
             outcome |-> outcome,
             result |-> checkChanges(upstream, f, lastSyncTimestamp, outcome)]
  /\ UNCHANGED <<now, ticks, cache, recent, live, sessions, upstream, figmaVariablesMetadata, walk, rateLimiter, figmaClient, inflight>>

TickExtractor ==
  /\ ticks < MaxTicks
  /\ \E d \in ExtractorDeltas : now' = now + d
  /\ ticks' = ticks + 1
  /\ ret' = [op |-> "tick"]
  /\ UNCHANGED <<cache, recent, live, sessions, upstream, figmaVariablesMetadata, walk, rateLimiter, figmaClient, inflight>>

NextExtractor ==
  \/ \E f \in Files, fl \in FilterArgs, o \in FetchOutcomes : ListComponents(f, fl, o)
  \/ \E f \in Files, ls \in LastSyncArgs, o \in FetchOutcomes : CheckChanges(f, ls, o)
  \/ \E f \in Files, id \in SetArgs, iv \in BOOLEAN, o \in FetchOutcomes :
       ExtractComponent(f, id, iv, FALSE, o)
  \/ \E k \in ExtractorKeys : Delete(k)
  \/ \E f \in Files, v \in Versions : ModifyFile(f, v)
  \/ TickExtractor

SpecExtractor == Init /\ [][NextExtractor]_vars

(***************************************************************************)
(* Properties of the listing, the change check and the variants.           *)
(***************************************************************************)
\* C17: listComponents caches the full listing under components:{fileId}
\* and filters after the cache on every call: inside the 30-minute TTL each
\* result is the filter applied to the cached full listing, with totalCount
\* the number of components returned and hasMore false; only the call that
\* found no listing fetches the document, and no filter changes the cached
\* list.
C17_FilterAfterCache ==
  ret.op = "listComponents" =>
    LET key == componentListKey(ret.fileId)
        fresh == ret.stored # None /\ now - ret.stored[1].timestamp <= TTL_componentList
    IN /\ fresh =>
            /\ ret.fetches = 0
            /\ ret.result.ok
            /\ ret.result.value.components = applyFilters(ret.stored[1].data, ret.filter)
            /\ LruHas(cache, key)
            /\ cache.items[key].value = ret.stored[1]
       /\ (ret.fetches = 1 /\ ret.result.ok) =>
            /\ LruHas(cache, key)
            /\ cache.items[key].value.data = extractComponentList(Docs[upstream[ret.fileId]])
            /\ ret.result.value.components =
                 applyFilters(cache.items[key].value.data, ret.filter)
       /\ ret.result.ok =>
            /\ ret.result.value.totalCount = Len(ret.result.value.components)
            /\ ret.result.value.hasMore = FALSE

\* a filtered call served, 30 minutes after the listing was stored, from a
\* listing that is longer than its result and older than the upstream file
C17_Witness ==
  /\ ret.op = "listComponents"
  /\ ret.fetches = 0
  /\ ret.filter # None
  /\ ret.stored # None
  /\ now - ret.stored[1].timestamp = TTL_componentList
  /\ Len(ret.result.value.components) = 2
  /\ Len(ret.stored[1].data) = 3
  /\ ret.stored[1].data # extractComponentList(Docs[upstream[ret.fileId]])

\* C18: every extractComponent(fileId, componentId, includeVariants,
\* includeInstances), computed or served from the cache after calls with
\* other flags, returns a record that has variants (the empty stub list)
\* exactly when includeVariants is true and the node is a COMPONENT_SET.
C18_VariantsFollowFlag ==
  (ret.op = "extractComponent" /\ ret.result.ok)
  => ((ret.result.value.variants # None)
        <=> (ret.includeVariants /\ ret.result.value.type = "COMPONENT_SET"))

\* the component and component-set nodes of a document
ComponentNodes(file) ==
  {i \in 1..Len(file.nodes) : file.nodes[i].type \in {"COMPONENT", "COMPONENT_SET"}}

BackReferenceDoc ==
  [name |-> "Design System", lastModified |-> "v1", root |-> 1,
   nodes |-> <<Node("0:0", "Document", "DOCUMENT", "none", <<2>>),
               Node("0:1", "Page 1", "CANVAS", "none", <<3>>),
               Node("c2", "Card", "COMPONENT_SET", "white", <<4, 2>>),
               Node("c3", "Card/Primary", "COMPONENT", "white", <<>>)>>]

WalkFiles == {"v1", "v3", "back-reference"}
WalkDoc(w) == IF w = "back-reference" THEN BackReferenceDoc ELSE Docs[w]
WalkTargets == {"c1", "c3", "c9"}
WalkKinds == {"findComponentInFile", "extractComponentList"}

\* entering node n: findInNode returns at once when n is the one looked for
Enter(w, n) ==
  IF w.kind = "findComponentInFile" /\ WalkDoc(w.file).nodes[n].id = w.target
  THEN [w EXCEPT !.status = "done", !.visits = Append(@, n), !.found = Some(n),
                 !.stack = <<>>]
  ELSE IF Len(w.stack) = MaxDepth
  THEN [w EXCEPT !.status = "RangeError", !.stack = <<>>]
  ELSE [w EXCEPT !.visits = Append(@, n),
                 !.stack = Append(@, [node |-> n, next |-> 1])]

StartWalk(kind, file, target) ==
  /\ walk.status # "running"
  /\ walk' = Enter([status |-> "running", kind |-> kind, file |-> file, target |-> target,
                    stack |-> <<>>, visits |-> <<>>, found |-> None],
                   WalkDoc(file).root)
  /\ ret' = [op |-> kind, file |-> file]
  /\ UNCHANGED <<now, ticks, cache, recent, live, sessions, upstream, figmaVariablesMetadata, rateLimiter, figmaClient, inflight>>

\* one step of the running call: descend into the next child, or return
StepWalk ==
  /\ walk.status = "running"
  /\ LET top == walk.stack[Len(walk.stack)]
         kids == WalkDoc(walk.file).nodes[top.node].children
     IN IF top.next <= Len(kids)
        THEN walk' = Enter([walk EXCEPT !.stack[Len(walk.stack)].next = top.next + 1],
                           kids[top.next])
        ELSE walk' = IF Len(walk.stack) = 1
                     THEN [walk EXCEPT !.status = "done", !.stack = <<>>]
                     ELSE [walk EXCEPT !.stack = SubSeq(@, 1, Len(@) - 1)]
  /\ ret' = [op |-> "step"]
  /\ UNCHANGED <<now, ticks, cache, recent, live, sessions, upstream, figmaVariablesMetadata, rateLimiter, figmaClient, inflight>>

NextWalk ==
  \/ \E k \in WalkKinds, f \in WalkFiles, t \in WalkTargets : StartWalk(k, f, t)
  \/ StepWalk

SpecWalk == Init /\ [][NextWalk]_vars

statePatterns ==
  <<"hover", "focus", "active", "pressed", "disabled", "selected", "loading", "error",
    "success", "warning", "visited">>

\* the capture of /state=([^,\s]+)/: the words after the first "state=" up
\* to a comma, white space or the end of the name
RECURSIVE UpToSeparator(_)
UpToSeparator(ws) ==
  IF ws = <<>> \/ Head(ws) \in {",", " "} THEN <<>>
  ELSE <<Head(ws)>> \o UpToSeparator(Tail(ws))

StateMatch(name) ==
  LET at == {i \in 1..Len(name) : name[i] = "state="}
  IN IF at = {} THEN <<>>
     ELSE UpToSeparator(SubSeq(name, (CHOOSE i \in at : \A j \in at : i <= j) + 1, Len(name)))

parseStateFromLayerName(layerName, patterns) ==
  LET name == LowerAll(layerName)
      hits == {i \in 1..Len(patterns) : patterns[i] \in Range(name)}
  IN IF hits # {} THEN Some(patterns[CHOOSE i \in hits : \A j \in hits : i <= j])
     ELSE LET match == StateMatch(name)
          IN IF Len(match) = 1 /\ match[1] \in Range(patterns) THEN Some(match[1])
             ELSE None

\* the layer names a component's subtree carries
LayerNames ==
  {<<"Label">>,
   <<"Hover">>,
   <<"icon", "_", "disabled">>,
   <<"State=", "Disabled">>,
   <<"hover", "-", "card", ",", " ", "state=", "disabled">>,
   <<"Disabled", " ", "state=", "hover">>}

\* a component with three layers: the first holds the second, the third is
\* its sibling
LayerTree(names) ==
  <<[name |-> <<"Button">>, children |-> <<2, 4>>],
    [name |-> names[1], children |-> <<3>>],
    [name |-> names[2], children |-> <<>>],
    [name |-> names[3], children |-> <<>>]>>

\* an analysis that keeps the first layer found for a state
analyzeNode_keepFirst(w, n) ==
  LET node == LayerTree(w.layers)[n]
      stateName == parseStateFromLayerName(node.name, statePatterns)
      states == IF stateName = None \/ stateName[1] \in DOMAIN w.states THEN w.states
                ELSE Put(w.states, stateName[1],
                         [layerName |-> node.name, node |-> n,
                          childStates |-> node.children # <<>>])
  IN [w EXCEPT !.states = states,
               !.visits = Append(@, n),
               !.stack = Append(@, [node |-> n, next |-> 1])]

\* analyzeNode up to its loop over the children: the entry of the node's state
analyzeNode(w, n) ==
  LET node == LayerTree(w.layers)[n]
      stateName == parseStateFromLayerName(node.name, statePatterns)
      states == IF stateName = None THEN w.states
                ELSE Put(w.states, stateName[1],
                         [layerName |-> node.name, node |-> n,
                          childStates |-> node.children # <<>>])
  IN [w EXCEPT !.states = states,
               !.visits = Append(@, n),
               !.stack = Append(@, [node |-> n, next |-> 1])]

ExtractStatesFromLayers(names) ==
  /\ walk.status # "running"
  /\ walk' = analyzeNode([status |-> "running", kind |-> "extractStatesFromLayers",
                          layers |-> names, stack |-> <<>>, visits |-> <<>>,
                          states |-> <<>>], 1)
  /\ ret' = [op |-> "analyzeNode", node |-> 1, layerName |-> <<"Button">>,
             stateName |-> parseStateFromLayerName(<<"Button">>, statePatterns)]
  /\ UNCHANGED <<now, ticks, cache, recent, live, sessions, upstream, figmaVariablesMetadata, rateLimiter, figmaClient, inflight>>

\* one step of the running analysis: analyse the next child, or return
AnalyzeStep ==
  /\ walk.status = "running"
  /\ LET top == walk.stack[Len(walk.stack)]
         tree == LayerTree(walk.layers)
         kids == tree[top.node].children
     IN IF top.next <= Len(kids)
        THEN /\ walk' = analyzeNode([walk EXCEPT !.stack[Len(walk.stack)].next = top.next + 1],
                                    kids[top.next])
             /\ ret' = [op |-> "analyzeNode", node |-> kids[top.next],
                        layerName |-> tree[kids[top.next]].name,
                        stateName |-> parseStateFromLayerName(tree[kids[top.next]].name,
                                                               statePatterns)]
        ELSE /\ walk' = IF Len(walk.stack) = 1
                        THEN [walk EXCEPT !.status = "done", !.stack = <<>>]
                        ELSE [walk EXCEPT !.stack = SubSeq(@, 1, Len(@) - 1)]
             /\ ret' = [op |-> "return"]
  /\ UNCHANGED <<now, ticks, cache, recent, live, sessions, upstream, figmaVariablesMetadata, rateLimiter, figmaClient, inflight>>

NextStates ==
  \/ \E a, b, c \in LayerNames : ExtractStatesFromLayers(<<a, b, c>>)
  \/ AnalyzeStep

SpecStates == Init /\ [][NextStates]_vars

\* the state a name states with state=X, X a canonical state
StatedState(layerName) ==
  LET match == StateMatch(LowerAll(layerName))
  IN IF Len(match) = 1 /\ match[1] \in Range(statePatterns) THEN Some(match[1]) ELSE None

\* C21: a layer whose name contains state=X, X in the canonical list, is
\* classified as X, also when the name contains another canonical state
\* that the substring rules, tried in list order, would pick.
C21_StatedStateWins ==
  (ret.op = "analyzeNode" /\ StatedState(ret.layerName) # None)
  => ret.stateName = StatedState(ret.layerName)

\* C22: state inference walks the whole subtree in pre-order, matched node
\* or not; the map has one key per canonical state matched anywhere in the
\* subtree, a node never overwrites the entry of a different state, and of
\* several nodes that resolve to one state the last in pre-order is kept.
C22_StatesByPreOrder ==
  (walk.status # "idle" /\ walk.kind = "extractStatesFromLayers") =>
    LET tree == LayerTree(walk.layers)
        resolved(n) == parseStateFromLayerName(tree[n].name, statePatterns)
        seen == Range(walk.visits)
    IN /\ walk.visits = SubSeq(<<1, 2, 3, 4>>, 1, Len(walk.visits))
       /\ walk.status = "done" => Len(walk.visits) = 4
       /\ DOMAIN walk.states = {resolved(n)[1] : n \in {x \in seen : resolved(x) # None}}
       /\ \A st \in DOMAIN walk.states :
            LET of == {n \in seen : resolved(n) = Some(st)}
            IN /\ walk.states[st].node = CHOOSE n \in of : \A x \in of : x <= n
               /\ walk.states[st].layerName = tree[walk.states[st].node].name

\* a finished analysis with two states, one of them matched at two depths
C22_Witness ==
  /\ walk.status = "done"
  /\ walk.kind = "extractStatesFromLayers"
  /\ DOMAIN walk.states = {"hover", "disabled"}
  /\ walk.states["hover"].node = 2
  /\ walk.states["disabled"].node = 4
  /\ parseStateFromLayerName(LayerTree(walk.layers)[3].name, statePatterns) = Some("disabled")

\* ---------------------------------------------------------------------
\* Effects to CSS (ComponentExtractor.convertEffectsToCSS)
\* ---------------------------------------------------------------------

\* longest effect list drawn as input
MaxEffects == 3

\* lengths are kept in tenths of a pixel; Math.round rounds half up
MathRound(tenths) == (tenths + 5) \div 10

DEFAULT_SHADOW_COLOR == "rgba(0, 0, 0, 0.25)"

\* `${x}px ${y}px ${blur}px ${spread}px ${color}`, with or without "inset "
ShadowCSS(inset, effect) ==
  [inset |-> inset,
   x |-> MathRound(effect.offset[1].x),
   y |-> MathRound(effect.offset[1].y),
   blur |-> MathRound(effect.radius[1]),
   spread |-> MathRound(effect.spread),
   color |-> IF effect.color = None THEN DEFAULT_SHADOW_COLOR ELSE effect.color[1]]

convertDropShadowToCSS(effect) ==
  IF effect.offset = None \/ effect.radius = None THEN None
  ELSE Some(ShadowCSS(FALSE, effect))

convertInnerShadowToCSS(effect) ==
  IF effect.offset = None \/ effect.radius = None THEN None
  ELSE Some(ShadowCSS(TRUE, effect))

\* `blur(${Math.round(radius)}px)`
convertBlurToCSS(effect) ==
  IF effect.radius = None \/ effect.radius[1] <= 0 THEN None
  ELSE Some([fn |-> "blur", px |-> MathRound(effect.radius[1])])

convertBackgroundBlurToCSS(effect) ==
  IF effect.radius = None \/ effect.radius[1] <= 0 THEN None
  ELSE Some([fn |-> "blur", px |-> MathRound(effect.radius[1])])

\* Array.prototype.join: the parts in order, with the separator between them;
\* a single CSS function written out is the one-part list
Join(parts, sep) == [sep |-> sep, parts |-> parts]

\* the forEach of convertEffectsToCSS, one effect at a time
RECURSIVE EffectsLoop(_, _, _)
EffectsLoop(effects, i, acc) ==
  IF i > Len(effects) THEN acc
  ELSE LET effect == effects[i]
           conv == CASE effect.type = "DROP_SHADOW" -> convertDropShadowToCSS(effect)
                     [] effect.type = "INNER_SHADOW" -> convertInnerShadowToCSS(effect)
                     [] effect.type = "LAYER_BLUR" -> convertBlurToCSS(effect)
                     [] effect.type = "BACKGROUND_BLUR" -> convertBackgroundBlurToCSS(effect)
                     [] OTHER -> None
           step == IF effect.visible = FALSE \/ conv = None THEN acc
                   ELSE CASE effect.type \in {"DROP_SHADOW", "INNER_SHADOW"} ->
                               [acc EXCEPT !.shadows = Append(@, conv[1])]
                          [] effect.type = "LAYER_BLUR" ->
                               [acc EXCEPT !.filters = Append(@, conv[1])]
                          [] effect.type = "BACKGROUND_BLUR" ->
                               [acc EXCEPT !.backdropFilter = Some(Join(<<conv[1]>>, " "))]
       IN EffectsLoop(effects, i + 1, step)

\* a key the code does not set is None
convertEffectsToCSS(effects) ==
  LET acc == EffectsLoop(effects, 1,
                         [shadows |-> <<>>, filters |-> <<>>, backdropFilter |-> None])
  IN [boxShadow |-> IF Len(acc.shadows) > 0 THEN Some(Join(acc.shadows, ", ")) ELSE None,
      filter |-> IF Len(acc.filters) > 0 THEN Some(Join(acc.filters, " ")) ELSE None,
      backdropFilter |-> acc.backdropFilter]

Effect(type, visible, offset, radius, spread, color) ==
  [type |-> type, visible |-> visible, offset |-> offset, radius |-> radius,
   spread |-> spread, color |-> color]

\* effects as extractEffects hands them over (visible a boolean, spread a number)
EffectPool ==
  { Effect("DROP_SHADOW", TRUE, Some([x |-> 0, y |-> 25]), Some(45), 0,
           Some("rgba(0, 0, 0, 0.1)")),
    Effect("INNER_SHADOW", TRUE, Some([x |-> 10, y |-> -25]), Some(20), 10, None),
    Effect("DROP_SHADOW", FALSE, Some([x |-> 0, y |-> 40]), Some(80), 0, None),
    Effect("LAYER_BLUR", TRUE, None, Some(40), 0, None),
    Effect("LAYER_BLUR", TRUE, None, Some(85), 0, None),
    Effect("BACKGROUND_BLUR", TRUE, None, Some(80), 0, None),
    Effect("BACKGROUND_BLUR", TRUE, None, Some(124), 0, None) }

EffectLists ==
  UNION {[1..n -> EffectPool] : n \in 0..MaxEffects}

ConvertEffectsToCSS(effects) ==
  /\ ret' = [op |-> "convertEffectsToCSS", effects |-> effects,
             css |-> convertEffectsToCSS(effects)]
  /\ UNCHANGED <<now, ticks, cache, recent, live, sessions, upstream,
                 figmaVariablesMetadata, walk, rateLimiter, figmaClient, inflight>>

NextEffects == \E effects \in EffectLists : ConvertEffectsToCSS(effects)

SpecEffects == Init /\ [][NextEffects]_vars

\* the conversions of the visible effects of the given types, in input order
RECURSIVE Converted(_, _)
Converted(effects, types) ==
  IF effects = <<>> THEN <<>>
  ELSE LET effect == Head(effects)
           conv == CASE effect.type = "DROP_SHADOW" -> convertDropShadowToCSS(effect)
                     [] effect.type = "INNER_SHADOW" -> convertInnerShadowToCSS(effect)
                     [] effect.type = "LAYER_BLUR" -> convertBlurToCSS(effect)
                     [] effect.type = "BACKGROUND_BLUR" -> convertBackgroundBlurToCSS(effect)
       IN (IF effect.visible /\ effect.type \in types /\ conv # None
           THEN <<conv[1]>> ELSE <<>>) \o Converted(Tail(effects), types)

Joined(parts, sep) == IF parts = <<>> THEN None ELSE Some(Join(parts, sep))

IsVisible(effect) == effect.visible

\* C23: boxShadow is the comma-joined list of the converted DROP_SHADOW and
\* INNER_SHADOW effects in input order; the blur effects combine into
\* space-joined lists in input order, LAYER_BLUR in filter and
\* BACKGROUND_BLUR in backdropFilter; an invisible effect contributes
\* nothing to any key.
C23_EffectsToCSS ==
  ret.op = "convertEffectsToCSS" =>
    /\ ret.css.boxShadow =
         Joined(Converted(ret.effects, {"DROP_SHADOW", "INNER_SHADOW"}), ", ")
    /\ ret.css.filter = Joined(Converted(ret.effects, {"LAYER_BLUR"}), " ")
    /\ ret.css.backdropFilter = Joined(Converted(ret.effects, {"BACKGROUND_BLUR"}), " ")
    /\ ret.css = convertEffectsToCSS(SelectSeq(ret.effects, IsVisible))

\* ---------------------------------------------------------------------
\* Variables to tokens (DesignTokenExtractor.processStylesAndVariables)
\* ---------------------------------------------------------------------

\* local variables of every resolved type; some without a value in the
\* default mode, some with a value that is falsy
VariablePool ==
  << Variable("brand", "COLOR", "Theme", [light |-> JsValue("object", "rgba(0,0,1,1)")]),
     Variable("logo", "COLOR", "Theme", [light |-> JsValue("object", "rgba(1,0,0,1)")]),
     Variable("accent", "COLOR", "Theme", [dark |-> JsValue("object", "rgba(0,1,0,1)")]),
     Variable("gap", "FLOAT", "Layout", [light |-> JsValue("number", "8")]),
     Variable("columns", "FLOAT", "Layout", [light |-> JsValue("number", "0")]),
     Variable("border", "FLOAT", "Layout", [light |-> JsValue("number", "1")]),
     Variable("title", "STRING", "Copy", [light |-> JsValue("string", "Hello")]),
     Variable("font", "STRING", "Copy", [light |-> JsValue("string", "Inter")]),
     Variable("visible", "BOOLEAN", "Flags", [light |-> JsValue("boolean", "true")]),
     Variable("enabled", "BOOLEAN", "Flags", [light |-> JsValue("boolean", "false")]) >>

\* the variables of the pool at the given positions, in pool order
RECURSIVE PickVariables(_, _)
PickVariables(picked, i) ==
  IF i > Len(VariablePool) THEN <<>>
  ELSE (IF i \in picked THEN <<VariablePool[i]>> ELSE <<>>) \o PickVariables(picked, i + 1)

ProcessVariables(variables) ==
  /\ ret' = [op |-> "processStylesAndVariables", variables |-> variables,
             tokens |-> processStylesAndVariables(<<>>, variables)]
  /\ UNCHANGED <<now, ticks, cache, recent, live, sessions, upstream,
                 figmaVariablesMetadata, walk, rateLimiter, figmaClient, inflight>>

NextVariables ==
  \E picked \in SUBSET (1..Len(VariablePool)) : ProcessVariables(PickVariables(picked, 1))

SpecVariables == Init /\ [][NextVariables]_vars

LegacyBuckets == {"colors", "typography", "spacing", "effects"}

\* the legacy buckets that hold the token
BucketsOf(tokens, tk) == {b \in LegacyBuckets : tk \in Range(tokens[b])}

HasDefaultModeValue(variable) ==
  VariableCollections[variable.variableCollectionId].defaultModeId
    \in DOMAIN variable.valuesByMode

\* the token of a variable that yields one
TokenOfVariable(variable) ==
  [name |-> normalizeTokenName(
              VariableCollections[variable.variableCollectionId].name
                \o "-" \o variable.name),
   type |-> mapVariableTypeToTokenType(variable.resolvedType),
   category |-> inferVariableCategory(variable.name, variable.resolvedType)]

\* C25: a variable yields no token exactly when it has no value in the
\* default mode of its collection: the variables bucket holds one token for
\* every variable with an entry for that mode, whatever the value, in
\* variable order, and the variables without one are skipped without
\* affecting the others.
C25_TokenIffDefaultModeValue ==
  ret.op = "processStylesAndVariables" =>
    LET yielding == SelectSeq(ret.variables, HasDefaultModeValue)
    IN ret.tokens.variables = [i \in 1..Len(yielding) |-> TokenOfVariable(yielding[i])]

\* ---------------------------------------------------------------------
\* RateLimiter (per client, fixed window)
\* ---------------------------------------------------------------------

\* the server constructs RateLimiter(100); the model counts to a small limit
maxRequestsPerHour == 2

windowMs == 60 * 60 * 1000

\* mutant of checkLimit: the limit is tested with > instead of >=
checkLimit_offByOne(clients, clientId, t) ==
  IF clientId \notin DOMAIN clients \/ t > clients[clientId].resetTime
  THEN [clients |-> Put(clients, clientId, [count |-> 1, resetTime |-> t + windowMs]),
        value |-> [allowed |-> TRUE, resetTime |-> None]]
  ELSE IF clients[clientId].count > maxRequestsPerHour
       THEN [clients |-> clients,
             value |-> [allowed |-> FALSE, resetTime |-> Some(clients[clientId].resetTime)]]
       ELSE [clients |-> [clients EXCEPT ![clientId].count = @ + 1],
             value |-> [allowed |-> TRUE, resetTime |-> None]]

checkLimit(clients, clientId, t) ==
  IF clientId \notin DOMAIN clients \/ t > clients[clientId].resetTime
  THEN [clients |-> Put(clients, clientId, [count |-> 1, resetTime |-> t + windowMs]),
        value |-> [allowed |-> TRUE, resetTime |-> None]]
  ELSE IF clients[clientId].count >= maxRequestsPerHour
       THEN [clients |-> clients,
             value |-> [allowed |-> FALSE, resetTime |-> Some(clients[clientId].resetTime)]]
       ELSE [clients |-> [clients EXCEPT ![clientId].count = @ + 1],
             value |-> [allowed |-> TRUE, resetTime |-> None]]

RateClients == {"client-a", "client-b"}
RateDeltas == {1, windowMs}

\* rateLimiter.grants[c] keeps the times of the calls of c that were allowed
GrantsOf(c) == IF c \in DOMAIN rateLimiter.grants THEN rateLimiter.grants[c] ELSE <<>>

CheckLimit(c) ==
  \E r \in {checkLimit(rateLimiter.clients, c, now)} :
    /\ rateLimiter' = [clients |-> r.clients,
                       grants |-> IF r.value.allowed
                                  THEN Put(rateLimiter.grants, c, Append(GrantsOf(c), now))
                                  ELSE rateLimiter.grants]
    /\ ret' = [op |-> "checkLimit", clientId |-> c, at |-> now,
               allowed |-> r.value.allowed, resetTime |-> r.value.resetTime,
               before |-> rateLimiter.clients, after |-> r.clients]
    /\ UNCHANGED <<now, ticks, cache, recent, live, sessions, upstream,
                   figmaVariablesMetadata, walk, figmaClient, inflight>>

TickRateLimiter ==
  /\ ticks < MaxTicks
  /\ \E d \in RateDeltas : now' = now + d
  /\ ticks' = ticks + 1
  /\ ret' = [op |-> "tick"]
  /\ UNCHANGED <<cache, recent, live, sessions, upstream, figmaVariablesMetadata, walk,
                 rateLimiter, figmaClient, inflight>>

NextRateLimiter ==
  \/ \E c \in RateClients : CheckLimit(c)
  \/ TickRateLimiter

SpecRateLimiter == Init /\ [][NextRateLimiter]_vars

\* the allowed calls of c from the opening of its current window to its resetTime
GrantsInWindow(c) ==
  LET r == rateLimiter.clients[c]
      g == GrantsOf(c)
  IN Cardinality({i \in 1..Len(g) : g[i] >= r.resetTime - windowMs /\ g[i] <= r.resetTime})

\* C26: in one window of a client, from the call that opens it to its
\* resetTime (opening time + 1 hour), at most maxRequestsPerHour calls are
\* allowed; a denied call leaves the client's counter and resetTime as they
\* were; the first call after resetTime opens a new window with count 1;
\* a call of one client leaves every other client's record unchanged.
C26_RateLimit ==
  /\ \A c \in DOMAIN rateLimiter.clients :
       /\ GrantsInWindow(c) <= maxRequestsPerHour
       /\ GrantsInWindow(c) = rateLimiter.clients[c].count
  /\ ret.op = "checkLimit" =>
       /\ ~ret.allowed =>
            /\ ret.after = ret.before
            /\ ret.resetTime = Some(ret.before[ret.clientId].resetTime)
       /\ (ret.clientId \in DOMAIN ret.before /\ ret.at > ret.before[ret.clientId].resetTime) =>
            /\ ret.allowed
            /\ ret.after[ret.clientId] = [count |-> 1, resetTime |-> ret.at + windowMs]
       /\ \A other \in RateClients \ {ret.clientId} :
            /\ other \in DOMAIN ret.after <=> other \in DOMAIN ret.before
            /\ other \in DOMAIN ret.before => ret.after[other] = ret.before[other]

\* a call denied at the limit while the other client still has allowance
C26_Witness ==
  /\ ret.op = "checkLimit"
  /\ ~ret.allowed
  /\ ret.before[ret.clientId].count = maxRequestsPerHour
  /\ \E other \in DOMAIN ret.after \ {ret.clientId} :
       ret.after[other].count < maxRequestsPerHour

\* a call after resetTime that opened a new window for a client at its limit
C26_NewWindowWitness ==
  /\ ret.op = "checkLimit"
  /\ ret.clientId \in DOMAIN ret.before
  /\ ret.before[ret.clientId].count = maxRequestsPerHour
  /\ ret.at > ret.before[ret.clientId].resetTime
  /\ ret.after[ret.clientId].count = 1

\* ---------------------------------------------------------------------
\* FigmaClient.makeRequest and its hourly limit, one step per resumption
\* ---------------------------------------------------------------------

\* 1000 by default in the client; the model counts to a small limit
requestsPerHour == 2

\* fetches the model lets the client start in all
MaxFetches == 4

HOUR == 1000 * 60 * 60

RequestIds == {1, 2, 3}
FigmaDeltas == {1, HOUR}

\* where a makeRequest call stands: not in the map when it is not running
\*   "ready"    waitForRateLimit has returned, the fetch is not started
\*   "delayed"  waiting in delay(waitTime) for the next hour
\*   "burst"    waiting in delay(100)
\*   "fetching" fetch started, response not back
PcOf(i) ==
  IF i \in DOMAIN figmaClient.requests THEN figmaClient.requests[i].pc ELSE "idle"

\* the burst protection at the end of waitForRateLimit
afterBurstCheck(requestCount, t) ==
  IF requestCount > 0 /\ requestCount % 10 = 0
  THEN [pc |-> "burst", wake |-> t + 100]
  ELSE [pc |-> "ready", wake |-> t]

\* waitForRateLimit up to its first suspension or its return
waitForRateLimit(fc, i, t) ==
  IF t - fc.lastResetTime >= HOUR
  THEN [fc EXCEPT !.requestCount = 0, !.lastResetTime = t,
                  !.requests = Put(@, i, [pc |-> "ready", wake |-> t])]
  ELSE IF fc.requestCount >= requestsPerHour
       THEN [fc EXCEPT !.requests =
                         Put(@, i, [pc |-> "delayed", wake |-> fc.lastResetTime + HOUR])]
       ELSE [fc EXCEPT !.requests = Put(@, i, afterBurstCheck(fc.requestCount, t))]

\* makeRequest is called: waitForRateLimit runs to its first await
MakeRequest(i) ==
  /\ PcOf(i) = "idle"
  /\ Len(figmaClient.fetches)
       + Cardinality({j \in DOMAIN figmaClient.requests : PcOf(j) # "fetching"}) < MaxFetches
  /\ figmaClient' = waitForRateLimit(figmaClient, i, now)
  /\ ret' = [op |-> "makeRequest", id |-> i]
  /\ UNCHANGED <<now, ticks, cache, recent, live, sessions, upstream,
                 figmaVariablesMetadata, walk, rateLimiter, inflight>>

\* a delay of waitForRateLimit is over
DelayElapsed(i) ==
  /\ PcOf(i) \in {"delayed", "burst"}
  /\ now >= figmaClient.requests[i].wake
  /\ figmaClient' =
       IF PcOf(i) = "delayed"
       THEN [figmaClient EXCEPT !.requestCount = 0, !.lastResetTime = now,
                                !.requests[i] = afterBurstCheck(0, now)]
       ELSE [figmaClient EXCEPT !.requests[i] = [pc |-> "ready", wake |-> now]]
  /\ ret' = [op |-> "delayElapsed", id |-> i]
  /\ UNCHANGED <<now, ticks, cache, recent, live, sessions, upstream,
                 figmaVariablesMetadata, walk, rateLimiter, inflight>>

\* the await of waitForRateLimit resumes: fetch(url) is issued
StartFetch(i) ==
  /\ PcOf(i) = "ready"
  /\ figmaClient' = [figmaClient EXCEPT !.requests[i].pc = "fetching",
                                        !.fetches = Append(@, now)]
  /\ ret' = [op |-> "fetch", id |-> i]
  /\ UNCHANGED <<now, ticks, cache, recent, live, sessions, upstream,
                 figmaVariablesMetadata, walk, rateLimiter, inflight>>

\* the response is back: requestCount++ and the call ends, with data or an error
FetchReturns(i) ==
  /\ PcOf(i) = "fetching"
  /\ figmaClient' = [figmaClient EXCEPT !.requestCount = @ + 1,
                                        !.requests = Forget(@, i)]
  /\ ret' = [op |-> "response", id |-> i]
  /\ UNCHANGED <<now, ticks, cache, recent, live, sessions, upstream,
                 figmaVariablesMetadata, walk, rateLimiter, inflight>>

TickFigmaClient ==
  /\ ticks < MaxTicks
  /\ \E d \in FigmaDeltas : now' = now + d
  /\ ticks' = ticks + 1
  /\ ret' = [op |-> "tick"]
  /\ UNCHANGED <<cache, recent, live, sessions, upstream, figmaVariablesMetadata, walk,
                 rateLimiter, figmaClient, inflight>>

NextFigmaClient ==
  \/ \E i \in RequestIds : MakeRequest(i)
  \/ \E i \in RequestIds : DelayElapsed(i)
  \/ \E i \in RequestIds : StartFetch(i)
  \/ \E i \in RequestIds : FetchReturns(i)
  \/ TickFigmaClient

SpecFigmaClient == Init /\ [][NextFigmaClient]_vars

\* the fetches started in the client's current reset window
FetchesInWindow ==
  Cardinality({k \in 1..Len(figmaClient.fetches) :
                 /\ figmaClient.fetches[k] >= figmaClient.lastResetTime
                 /\ figmaClient.fetches[k] < figmaClient.lastResetTime + HOUR})

\* C27: the client starts at most requestsPerHour fetches inside one reset
\* window, under every interleaving of concurrent makeRequest calls.
C27_FetchesWithinLimit == FetchesInWindow <= requestsPerHour

\* ---------------------------------------------------------------------
\* Two clients on one SessionManager
\* ---------------------------------------------------------------------
IsolationClients == {"client-a", "client-b"}

IsolationUpdates ==
  {[id |-> "c1", status |-> "implemented", args |-> Plain]}

IsolationCandidates == <<[id |-> "c1"], [id |-> "c2"]>>

NextIsolation ==
  \/ \E c \in IsolationClients, u \in ParsedUrls : SetWorkingFile(c, u, None)
  \/ \E c \in IsolationClients : GetWorkingFile(c)
  \/ \E c \in IsolationClients, u \in IsolationUpdates :
       UpdateComponentStatus(c, u.id, u.args, u.status)
  \/ \E c \in IsolationClients : GetComponentStatus(c, "c1")
  \/ \E c \in IsolationClients : GetImplementationQueue(c, IsolationCandidates)
  \/ \E c \in IsolationClients : GetImplementationSummary(c)
  \/ \E c \in IsolationClients : ClearWorkingFile(c)
  \/ TickSession

SpecIsolation == Init /\ [][NextIsolation]_vars

SessionOps ==
  {"setWorkingFile", "getWorkingFile", "updateComponentStatus", "getComponentStatus",
   "getImplementationQueue", "getImplementationSummary", "clearWorkingFile"}

\* C28: a session operation called for client A leaves the session of every
\* other client B as it was: present or absent, with the same fileId,
\* setAt, lastAccessed and status map.
C28_SessionsIsolated ==
  [][\A b \in IsolationClients :
       (ret'.op \in SessionOps /\ ret'.client # b)
         => LiveEntry(sessions', b) = LiveEntry(sessions, b)]_vars

\* client A's session expired and was dropped by its own read while client
\* B keeps a later session on the same file, with a tracked component
C28_Witness ==
  /\ ret.op \in {"getWorkingFile", "updateComponentStatus", "getImplementationQueue"}
  /\ ret.client = "client-a"
  /\ ret.before # None
  /\ "client-a" \notin DOMAIN sessions
  /\ "client-b" \in DOMAIN sessions
  /\ sessions["client-b"].fileId = ret.before[1].fileId
  /\ DOMAIN sessions["client-b"].implementationStatus # {}

\* ---------------------------------------------------------------------
\* Working-file handlers of the server.  A URL is written as the sequence
\* of its parts between '/', with the query split off the last part:
\* "https://figma.com/design/f2/Untitled?node-id=1%3A2" is
\* <<"https:", "", "figma.com", "design", "f2", "Untitled", "?node-id=", "1%3A2">>.
\* ---------------------------------------------------------------------

\* the words of [a-zA-Z0-9_-]+ among the parts the inputs hold
FileIdWords == {"f1", "f2", "123"}

decodeURIComponent(s) ==
  CASE s = "1%3A2" -> "1:2"
    [] OTHER -> s

\* one of the four FIGMA_URL_PATTERNS matches: scheme, host, kind, a file
\* id and the '/' after it
MatchesFigmaUrl(url) ==
  /\ Len(url) >= 6
  /\ url[1] = "https:"
  /\ url[2] = ""
  /\ url[3] \in {"www.figma.com", "figma.com"}
  /\ url[4] \in {"file", "design"}
  /\ url[5] \in FileIdWords

parse(url) ==
  IF url = <<>> THEN Err("Invalid URL: URL must be a non-empty string")
  ELSE IF MatchesFigmaUrl(url)
       THEN Ok([fileId |-> url[5],
                fileName |-> IF url[6] # "" THEN Some(decodeURIComponent(url[6])) ELSE None,
                nodeId |-> IF Len(url) >= 8 /\ url[7] = "?node-id="
                           THEN Some(decodeURIComponent(url[8])) ELSE None,
                url |-> url])
       ELSE Err("Invalid Figma URL format")

\* figmaClient.getFile of the handlers: a file id unknown upstream is a 404
fetchFile(up, fileId, outcome) ==
  IF fileId \notin DOMAIN up THEN Err("NotFound") ELSE getFile(up, fileId, outcome)

\* mutant of handleSetWorkingFile: the session is set before access is validated
handleSetWorkingFile_setFirst(ss, up, clientId, url, outcome, t) ==
  LET parsedUrl == parse(url) IN
  IF ~parsedUrl.ok THEN [sessions |-> ss, result |-> Err(parsedUrl.error)]
  ELSE LET file == fetchFile(up, parsedUrl.value.fileId, outcome)
           w == setWorkingFile(ss, clientId, parsedUrl.value, parsedUrl.value.fileName, t)
       IN IF ~file.ok THEN [sessions |-> w.sessions, result |-> Err(file.error)]
          ELSE [sessions |-> w.sessions,
                result |-> Ok([fileId |-> w.value.fileId, fileName |-> w.value.fileName,
                               url |-> w.value.url, setAt |-> w.value.setAt])]

\* nothing of the session is read before the fetch, so the handler is one step
handleSetWorkingFile(ss, up, clientId, url, outcome, t) ==
  LET parsedUrl == parse(url) IN
  IF ~parsedUrl.ok THEN [sessions |-> ss, result |-> Err(parsedUrl.error)]
  ELSE LET file == fetchFile(up, parsedUrl.value.fileId, outcome) IN
       IF ~file.ok THEN [sessions |-> ss, result |-> Err(file.error)]
       ELSE LET w == setWorkingFile(ss, clientId, parsedUrl.value,
                                    Some(file.value.name), t)
            IN [sessions |-> w.sessions,
                result |-> Ok([fileId |-> w.value.fileId, fileName |-> w.value.fileName,
                               url |-> w.value.url, setAt |-> w.value.setAt])]

UrlArgs ==
  {<<"https:", "", "www.figma.com", "file", "f1", "Design-System">>,
   <<"https:", "", "figma.com", "design", "f2", "Untitled", "?node-id=", "1%3A2">>,
   <<"https:", "", "invalid.com", "file", "123">>,
   <<"https:", "", "www.figma.com", "file", "f1">>,
   <<"not-a-url">>,
   <<>>}

HandlerUpdates ==
  {[id |-> "c1", status |-> "implemented", args |-> Plain]}

HandlerDeltas == {1, SESSION_TTL}

\* extractClientId: request.id || 'default-client'
HandlerClient == "default-client"

HandleSetWorkingFile(url, outcome) ==
  \E r \in {handleSetWorkingFile(sessions, upstream, HandlerClient, url, outcome, now)} :
    /\ sessions' = r.sessions
    /\ ret' = [op |-> "handleSetWorkingFile", url |-> url, outcome |-> outcome,
               ok |-> r.result.ok, before |-> LiveEntry(sessions, HandlerClient)]
    /\ UNCHANGED <<now, ticks, cache, recent, live, upstream, figmaVariablesMetadata,
                   walk, rateLimiter, figmaClient, inflight>>

\* updateComponentStatus, then getComponentStatus for the answer
HandleUpdateComponentStatus(u) ==
  \E r \in {updateComponentStatus(sessions, HandlerClient, u.id, u.args.name, u.status,
                                  u.args.options, now)} :
    /\ sessions' = IF r.value
                   THEN getComponentStatus(r.sessions, HandlerClient, u.id, now).sessions
                   ELSE r.sessions
    /\ ret' = [op |-> "handleUpdateComponentStatus", componentId |-> u.id, ok |-> r.value]
    /\ UNCHANGED <<now, ticks, cache, recent, live, upstream, figmaVariablesMetadata,
                   walk, rateLimiter, figmaClient, inflight>>

\* the end of handleGetImplementationQueue, from the component list on: the
\* queue is partitioned by the session the manager holds at this moment,
\* the file is reported from the session read when the handler began
queueResponse(ss, workingFile, components, t) ==
  LET q == getImplementationQueue(ss, HandlerClient, components, t)
  IN [sessions |-> q.sessions,
      response |-> [op |-> "handleGetImplementationQueue", ok |-> TRUE,
                    workingFile |-> [fileId |-> workingFile.fileId,
                                     fileName |-> workingFile.fileName],
                    readFrom |-> Some(workingFile),
                    queue |-> q.value,
                    statusesFrom |-> LiveEntry(q.sessions, HandlerClient)]]

\* the handler up to the fetch of listComponents; with the list in the cache
\* nothing suspends it and it answers in the same step
BeginGetImplementationQueue(filter) ==
  /\ inflight = None
  /\ \E g \in {getWorkingFile(sessions, HandlerClient, now)} :
       IF g.value = None
       THEN /\ sessions' = g.sessions
            /\ ret' = [op |-> "handleGetImplementationQueue", ok |-> FALSE]
            /\ UNCHANGED <<cache, live, inflight>>
       ELSE \E cached \in {CacheGet(cache, componentListKey(g.value[1].fileId), now)} :
              /\ cache' = cached.cache
              /\ live' = LiveAfter(live, cache, cached.cache)
              /\ IF cached.value # None
                 THEN \E r \in {queueResponse(g.sessions, g.value[1],
                                              applyFilters(cached.value[1], filter), now)} :
                        /\ sessions' = r.sessions
                        /\ ret' = r.response
                        /\ UNCHANGED inflight
                 ELSE /\ sessions' = g.sessions
                      /\ inflight' = Some([workingFile |-> g.value[1], filter |-> filter])
                      /\ ret' = [op |-> "awaitGetFile"]
  /\ UNCHANGED <<now, ticks, recent, upstream, figmaVariablesMetadata, walk,
                 rateLimiter, figmaClient>>

\* the fetch of listComponents is back: the list is cached and filtered, the
\* queue is built and the handler answers, or the handler fails with the fetch
FinishGetImplementationQueue(outcome) ==
  /\ inflight # None
  /\ inflight' = None
  /\ LET workingFile == inflight[1].workingFile
         file == getFile(upstream, workingFile.fileId, outcome)
     IN IF ~file.ok
        THEN /\ ret' = [op |-> "handleGetImplementationQueue", ok |-> FALSE]
             /\ UNCHANGED <<cache, live, sessions>>
        ELSE \E components \in {extractComponentList(file.value)} :
             \E c2 \in {CacheSet(cache, DEFAULT_MAX, componentListKey(workingFile.fileId),
                                 components, Some(TTL_componentList), now)} :
             \E r \in {queueResponse(sessions, workingFile,
                                     applyFilters(components, inflight[1].filter), now)} :
               /\ cache' = c2
               /\ live' = LiveAfter(live, cache, c2)
               /\ sessions' = r.sessions
               /\ ret' = r.response
  /\ UNCHANGED <<now, ticks, recent, upstream, figmaVariablesMetadata, walk,
                 rateLimiter, figmaClient>>

TickHandlers ==
  /\ ticks < MaxTicks
  /\ \E d \in HandlerDeltas : now' = now + d
  /\ ticks' = ticks + 1
  /\ ret' = [op |-> "tick"]
  /\ UNCHANGED <<cache, recent, live, sessions, upstream, figmaVariablesMetadata, walk,
                 rateLimiter, figmaClient, inflight>>

NextHandlers ==
  \/ \E url \in UrlArgs, o \in FetchOutcomes : HandleSetWorkingFile(url, o)
  \/ \E u \in HandlerUpdates : HandleUpdateComponentStatus(u)
  \/ BeginGetImplementationQueue(None)
  \/ \E o \in FetchOutcomes : FinishGetImplementationQueue(o)
  \/ TickHandlers

SpecHandlers == Init /\ [][NextHandlers]_vars

\* the URLs among the inputs that have the accepted shape
\* https://(www.)figma.com/(file|design)/{fileId}/{name}
AcceptedUrls ==
  {<<"https:", "", "www.figma.com", "file", "f1", "Design-System">>,
   <<"https:", "", "figma.com", "design", "f2", "Untitled", "?node-id=", "1%3A2">>}

\* C29: a set-working-file whose URL does not have the accepted shape, or
\* whose access-validating fetch fails, reports an error and leaves the
\* client's session as it was: the same fileId, setAt and status map, or
\* none as before.
C29_FailedSetChangesNothing ==
  ret.op = "handleSetWorkingFile" =>
    /\ (ret.url \notin AcceptedUrls \/ ret.outcome # "ok") => ~ret.ok
    /\ ~ret.ok => LiveEntry(sessions, HandlerClient) = ret.before

\* a set that failed at the fetch, over a session with a tracked component
C29_Witness ==
  /\ ret.op = "handleSetWorkingFile"
  /\ ret.url \in AcceptedUrls
  /\ ret.outcome = "error"
  /\ ~ret.ok
  /\ ret.before # None
  /\ DOMAIN ret.before[1].implementationStatus # {}
  /\ ret.before[1].fileId # ret.url[5]

\* a set that failed at the URL, over a session
C29_UrlWitness ==
  /\ ret.op = "handleSetWorkingFile"
  /\ ret.url \notin AcceptedUrls
  /\ ret.outcome = "ok"
  /\ ~ret.ok
  /\ ret.before # None

\* C30: the file a get-implementation-queue answer reports, the components
\* it lists and the statuses it partitions them by belong to one
\* working-file session, whatever took effect while the handler was
\* suspended in the fetch of listComponents.
C30_QueueSnapshot ==
  (ret.op = "handleGetImplementationQueue" /\ ret.ok) =>
    /\ ret.statusesFrom # None
    /\ ret.statusesFrom[1].fileId = ret.readFrom[1].fileId
    /\ ret.statusesFrom[1].setAt = ret.readFrom[1].setAt

====
